---- MODULE Spec2Model ----
(***************************************************************************)
(* Model of alpaca_monitor: the weather monitoring system                  *)
(* (src/src/weather_monitor.py), the EKOS D-Bus controller                 *)
(* (src/src/ekos_control.py), the Alpaca safety monitor client             *)
(* (src/src/alpaca_weather.py) and the HTTP action client                  *)
(* (src/src/http_client.py).                                               *)
(*                                                                         *)
(* Every method is an operator that takes the machine record               *)
(*     m = [sess, rem, log, ret, guard]                                    *)
(* (the controller's session fields, the remote control plane, the remote  *)
(* calls made so far in the current operation, the method's return value,  *)
(* the status a start/stop guard has read) and the behaviour e of the      *)
(* remote side during the operation, and returns the machine record after  *)
(* the method.  The actions apply one method each and store what it did    *)
(* in `last`.                                                              *)
(***************************************************************************)
EXTENDS Integers, Sequences, FiniteSets, TLC

VARIABLES
    sess,       \* EkosController: connected, bus, ekos, scheduler, props
                \* (properties_interface), ekos_props (ekos_properties_interface)
    rem,        \* the remote control plane: up, ekos (service), sched (status)
    wconn,      \* AlpacaWeatherMonitor.connected
    cfg,        \* configuration: behavior.stop_ekos_on_unsafe, alpaca.max_retries
    last,       \* the last operation: its inputs, remote calls and result
    prev,       \* the evaluation before the last one (its reading and result)
    running,    \* WeatherMonitoringSystem.running
    jobs,       \* number of periodic jobs registered with `schedule`
    queued,     \* coroutines handed to the event loop, not yet run
    stats,      \* coroutines the wrapper has submitted / the loop has run
                \* after `running` was cleared
    phase,      \* position of run(): "init", "failed", "loop", "stopped"
    files       \* the file system: what is stored at each configuration path

vars == <<sess, rem, wconn, cfg, last, prev, running, jobs, queued, stats, phase,
          files>>

----------------------------------------------------------------------------
(* Values *)

\* Python's None as a scheduler status (get_scheduler_status returns None)
None == 0 - 1

\* an exception in the place of a value: the awaited call has raised
Raised == 0 - 2

Idle == 0
Running == 1
Paused == 2

Statuses == {Idle, Running, Paused}

\* self.bus .. self.connected after __init__ and after disconnect()
NoSession ==
    [connected |-> FALSE, bus |-> FALSE, ekos |-> FALSE,
     scheduler |-> FALSE, props |-> FALSE, ekos_props |-> FALSE]

Sessions ==
    [connected : BOOLEAN, bus : BOOLEAN, ekos : BOOLEAN,
     scheduler : BOOLEAN, props : BOOLEAN, ekos_props : BOOLEAN]

\* The remote control plane: `up` is whether the D-Bus service answers,
\* `ekos` the ekosStatus property, `sched` the scheduler's status property.
Remotes == [up : BOOLEAN, ekos : {0, 1}, sched : Statuses]

\* How the scheduler's status can be read on the remote interface:
\*   direct   - the proxy's get_status attribute
\*   prefixed - the proxy's call_get_status attribute
\*   prop     - Get on org.freedesktop.DBus.Properties; "late": it answers
\*              once initialize_scheduler() has introspected the scheduler
\*              again during the operation
StatusCaps ==
    [direct : {"absent", "raises", "ok"},
     prefixed : {"absent", "raises", "ok"},
     prop : {"fails", "late", "ok"}]

\* The remote side's behaviour during one operation.
\*   cap      - how the scheduler status can be read
\*   ekosCap  - "status": ekosStatus can be read; "profiles": only
\*              call_get_profiles answers; "none": nothing answers
\*   schedCmd - the scheduler's start/stop method: "ok" takes effect,
\*              "ignored" is sent without effect, "absent" does not exist
\*   ekosCmd  - the service's start/stop method, likewise, or "raises", or
\*              "slow": it takes effect when the caller's last poll is due
\*   http     - the configured HTTP actions: "off" (disabled or none
\*              configured), "ok", "fail"
Behaviours ==
    [cap : StatusCaps,
     ekosCap : {"status", "profiles", "none"},
     schedCmd : {"ok", "ignored", "absent"},
     ekosCmd : {"ok", "slow", "ignored", "absent", "raises"},
     http : {"off", "ok", "fail"}]

\* The controller during one operation: its session, the remote side, the
\* commands sent (log), the operation's own steps of re-resolution (steps),
\* the value returned and the status an operation's guard has read.
Machine(s, r) ==
    [sess |-> s, rem |-> r, log |-> <<>>, steps |-> <<>>, ret |-> FALSE,
     guard |-> None]

Ret(m, v) == [m EXCEPT !.ret = v]

Call(m, c) == [m EXCEPT !.log = Append(@, c)]

Step(m, c) == [m EXCEPT !.steps = Append(@, c)]

CountOf(log, c) == Cardinality({i \in DOMAIN log : log[i] = c})

Sent(log, c) == \E i \in DOMAIN log : log[i] = c

\* c1 occurs in log and every occurrence of c2 comes after the first c1
Before(log, c1, c2) ==
    \A j \in DOMAIN log : log[j] = c2 => \E i \in 1..(j - 1) : log[i] = c1

----------------------------------------------------------------------------
(* EkosController *)

\* a connect() whose except clauses leave self.connected as it was
connect_failure_keeps_flag(m, e) ==
    LET m1 == Call(m, "connect")
    IN  IF m.rem.up
        THEN [m1 EXCEPT !.sess = [connected |-> TRUE, bus |-> TRUE, ekos |-> TRUE,
                                  scheduler |-> TRUE, props |-> TRUE,
                                  ekos_props |-> TRUE],
                        !.ret = TRUE]
        ELSE [m1 EXCEPT !.sess = [m.sess EXCEPT !.bus = TRUE], !.ret = FALSE]

\* connect(): self.bus is assigned before bus.connect()/introspect can raise;
\* the interfaces and connected = True are assigned only when all succeed,
\* and both except clauses assign connected = False.
connect(m, e) ==
    LET m1 == Call(m, "connect")
    IN  IF m.rem.up
        THEN [m1 EXCEPT !.sess = [connected |-> TRUE, bus |-> TRUE, ekos |-> TRUE,
                                  scheduler |-> TRUE, props |-> TRUE,
                                  ekos_props |-> TRUE],
                        !.ret = TRUE]
        ELSE [m1 EXCEPT !.sess = [m.sess EXCEPT !.bus = TRUE, !.connected = FALSE],
                        !.ret = FALSE]

disconnect(m) ==
    [m EXCEPT !.sess = NoSession, !.ret = TRUE]

\* a try block whose exception escapes
Uncaught(v) == v

\* try: ... except Exception: ... return None
Caught(v) == IF v = Raised THEN None ELSE v

\* await getattr(prop_interface, method_name)(interface, property_name): the
\* status, or the remote side's error
PropertyCall(m, e) ==
    IF /\ m.rem.up
       /\ \/ e.cap.prop = "ok"
          \/ e.cap.prop = "late" /\ Sent(m.steps, "introspect")
    THEN m.rem.sched
    ELSE Raised

\* await getattr(obj, name)(): the status when the remote method works, else
\* the remote side's error
AttributeCall(m, kind) ==
    IF kind = "ok" /\ m.rem.up THEN m.rem.sched ELSE Raised

\* dbus_property_operation("Get", scheduler_interface, 'status'): the value, or
\* None when the Properties interface is missing or every method fails
dbus_property_operation(m, e) ==
    IF ~m.sess.props THEN None ELSE Caught(PropertyCall(m, e))

get_property(m, e) == dbus_property_operation(m, e)

is_connected(m, e) ==
    IF ~m.sess.connected \/ ~m.sess.bus \/ ~m.sess.ekos \/ ~m.sess.scheduler
    THEN FALSE
    ELSE get_property(m, e) # None

\* the guard every operation starts with:
\*   if not await self.is_connected(): if not await self.connect(): return ...
EnsureConnected(m, e) ==
    IF is_connected(m, e) THEN Ret(m, TRUE) ELSE connect(m, e)

\* call_method(self.scheduler, "get_status"): the attribute itself, else the
\* call_ prefixed one, else the property "_status" (which no remote has);
\* an exception of the call is caught and gives None
call_method_get_status(m, e) ==
    IF ~m.sess.scheduler THEN None
    ELSE IF e.cap.direct # "absent"
    THEN Caught(AttributeCall(m, e.cap.direct))
    ELSE IF e.cap.prefixed # "absent"
    THEN Caught(AttributeCall(m, e.cap.prefixed))
    ELSE None

\* initialize_scheduler(in_recursion=True), once connected: introspects the
\* scheduler again and reads the status property
Introspected(m) ==
    [m EXCEPT !.sess.bus = TRUE, !.sess.scheduler = TRUE, !.sess.props = TRUE,
              !.steps = Append(@, "introspect")]

initialize_scheduler_connected(m, e) ==
    IF ~m.ret \/ ~m.rem.up THEN Ret(m, FALSE)
    ELSE Ret(Introspected(m), dbus_property_operation(Introspected(m), e) # None)

\* initialize_scheduler(in_recursion=True): reconnects when is_connected() fails
initialize_scheduler(m, e) ==
    initialize_scheduler_connected(
        EnsureConnected(Step(m, "initialize_scheduler"), e), e)

\* get_scheduler_status(), the strategies in their order: the proxy's
\* get_status, call_method, the status property
StatusStrategies(m, e) ==
    IF e.cap.direct # "absent" /\ Caught(AttributeCall(m, e.cap.direct)) # None
    THEN Caught(AttributeCall(m, e.cap.direct))
    ELSE IF call_method_get_status(m, e) # None THEN call_method_get_status(m, e)
    ELSE dbus_property_operation(m, e)

\* get_scheduler_status() after the last resort, the reinitialization
get_scheduler_status_reinitialized(m, e) ==
    IF m.ret THEN Ret(Step(m, "reread"), dbus_property_operation(m, e))
    ELSE Ret(m, None)

\* get_scheduler_status() giving up when its strategies have failed
get_scheduler_status_read_once(m, e) ==
    IF ~m.ret THEN Ret(m, None) ELSE Ret(m, StatusStrategies(m, e))

\* get_scheduler_status() with the scheduler interface at hand
get_scheduler_status_read(m, e) ==
    IF ~m.ret THEN Ret(m, None)
    ELSE IF StatusStrategies(m, e) # None THEN Ret(m, StatusStrategies(m, e))
    ELSE get_scheduler_status_reinitialized(initialize_scheduler(m, e), e)

\* get_scheduler_status() once connected
get_scheduler_status_connected(m, e) ==
    IF ~m.ret THEN Ret(m, None)
    ELSE get_scheduler_status_read(
             IF m.sess.scheduler THEN m ELSE initialize_scheduler(m, e), e)

\* get_scheduler_status(): ret is the status, or None
get_scheduler_status(m, e) ==
    get_scheduler_status_connected(EnsureConnected(m, e), e)

\* the verification loop after a scheduler command:
\*   for _ in range(3): sleep(1); new_status = get_scheduler_status();
\*                      if new_status == target: return True
\* ret is whether the target status was seen within n polls
RECURSIVE PollScheduler(_, _, _, _)
PollSchedulerSeen(m, e, target, n) ==
    IF m.ret = target THEN Ret(m, TRUE) ELSE PollScheduler(m, e, target, n - 1)

\* a verification loop that reads the status once more when its polls
\* have run out
PollSchedulerOnceMore(m, e, target, n) ==
    IF n = 0 THEN Ret(get_scheduler_status(Call(m, "sleep"), e), FALSE)
    ELSE PollSchedulerSeen(get_scheduler_status(Call(m, "sleep"), e), e, target, n)

PollScheduler(m, e, target, n) ==
    IF n = 0 THEN Ret(m, FALSE)
    ELSE PollSchedulerSeen(get_scheduler_status(Call(m, "sleep"), e), e, target, n)

\* call_method(self.scheduler, name) for "start" and "stop": the call is made
\* when the proxy has the method; its effect is the remote side's
SchedulerCommand(m, e, name, status) ==
    IF e.schedCmd = "absent" \/ ~m.sess.scheduler THEN m
    ELSE IF e.schedCmd = "ok" /\ m.rem.up
    THEN [m EXCEPT !.log = Append(@, name), !.rem.sched = status]
    ELSE Call(m, name)

\* for _ in range(3)
SchedulerPolls == 3

\* start_scheduler() sending its command whatever the status read
start_scheduler_guard_unguarded(m, e) ==
    PollScheduler(
        SchedulerCommand([m EXCEPT !.guard = m.ret], e, "sched.start", Running),
        e, Running, SchedulerPolls)

\* start_scheduler() taking an unknown status for Running
start_scheduler_guard_unknown_runs(m, e) ==
    IF m.ret = Running \/ m.ret = None THEN [m EXCEPT !.guard = m.ret, !.ret = TRUE]
    ELSE PollScheduler(
             SchedulerCommand([m EXCEPT !.guard = m.ret], e, "sched.start", Running),
             e, Running, SchedulerPolls)

\* start_scheduler() with the status read: m.ret is the status
start_scheduler_guard(m, e) ==
    IF m.ret = Running THEN [m EXCEPT !.guard = m.ret, !.ret = TRUE]
    ELSE PollScheduler(
             SchedulerCommand([m EXCEPT !.guard = m.ret], e, "sched.start", Running),
             e, Running, SchedulerPolls)

start_scheduler_connected(m, e) ==
    IF ~m.ret THEN Ret(m, FALSE)
    ELSE start_scheduler_guard(get_scheduler_status(m, e), e)

start_scheduler(m, e) ==
    start_scheduler_connected(EnsureConnected(m, e), e)

\* abort_scheduler() returning early on an unknown status only
abort_scheduler_guard_unknown_only(m, e) ==
    IF m.ret = None THEN [m EXCEPT !.guard = m.ret, !.ret = TRUE]
    ELSE PollScheduler(
             SchedulerCommand([m EXCEPT !.guard = m.ret], e, "sched.stop", Idle),
             e, Idle, SchedulerPolls)

\* abort_scheduler() with the status read: m.ret is the status
abort_scheduler_guard(m, e) ==
    IF m.ret = None \/ m.ret # Running THEN [m EXCEPT !.guard = m.ret, !.ret = TRUE]
    ELSE PollScheduler(
             SchedulerCommand([m EXCEPT !.guard = m.ret], e, "sched.stop", Idle),
             e, Idle, SchedulerPolls)

abort_scheduler_connected(m, e) ==
    IF ~m.ret THEN Ret(m, FALSE)
    ELSE abort_scheduler_guard(get_scheduler_status(m, e), e)

abort_scheduler(m, e) ==
    abort_scheduler_connected(EnsureConnected(m, e), e)

\* a stop_scheduler() that does not re-establish a lost connection first
stop_scheduler_unconnected(m, e) ==
    abort_scheduler_connected(Ret(m, m.sess.connected), e)

stop_scheduler(m, e) == abort_scheduler(m, e)

\* is_ekos_running() once connected: ekosStatus == 1 by the first strategy
\* that answers, else whether call_get_profiles answers
is_ekos_running_connected(m, e) ==
    IF ~m.ret \/ ~m.rem.up THEN Ret(m, FALSE)
    ELSE IF e.ekosCap = "status" THEN Ret(m, m.rem.ekos = 1)
    ELSE Ret(m, e.ekosCap = "profiles")

is_ekos_running(m, e) ==
    is_ekos_running_connected(EnsureConnected(m, e), e)

\* for _ in range(5): sleep(1); if [not] is_ekos_running(): ...
RECURSIVE PollEkos(_, _, _, _)
PollEkosSeen(m, e, target, n) ==
    IF m.ret = target THEN Ret(m, TRUE) ELSE PollEkos(m, e, target, n - 1)

\* for _ in range(5)
EkosPolls == 5

\* the service's last start or stop command in the log, 0 when there is none
LastEkosCommand(log) ==
    IF \E i \in DOMAIN log : log[i] \in {"ekos.start", "ekos.stop"}
    THEN CHOOSE i \in DOMAIN log :
             /\ log[i] \in {"ekos.start", "ekos.stop"}
             /\ \A j \in (i + 1)..Len(log) : log[j] \notin {"ekos.start", "ekos.stop"}
    ELSE 0

\* asyncio.sleep(1) of the polling loop: a slow service has obeyed its last
\* command when the sleep before the last poll is over
PollSleep(m, e) ==
    IF /\ e.ekosCmd = "slow"
       /\ LastEkosCommand(m.log) > 0
       /\ Cardinality({i \in (LastEkosCommand(m.log) + 1)..Len(m.log) :
                          m.log[i] = "sleep"}) = EkosPolls - 1
    THEN [m EXCEPT !.log = Append(@, "sleep"),
                   !.rem.ekos = IF m.log[LastEkosCommand(m.log)] = "ekos.start"
                                THEN 1 ELSE 0]
    ELSE Call(m, "sleep")

PollEkos(m, e, target, n) ==
    IF n = 0 THEN Ret(m, FALSE)
    ELSE PollEkosSeen(is_ekos_running(PollSleep(m, e), e), e, target, n)

\* HttpActionClient.before_ekos_start / after_ekos_stop: True without a
\* request when disabled or nothing is configured, else the sequence's result
HttpActions(m, e, name) ==
    IF e.http = "off" THEN Ret(m, TRUE)
    ELSE Ret(Call(m, name), e.http = "ok")

before_ekos_start(m, e) == HttpActions(m, e, "http.before")

after_ekos_stop(m, e) == HttpActions(m, e, "http.after")

\* start_ekos() from the call of the service's start method
start_ekos_command(m, e) ==
    IF ~m.ret \/ e.ekosCmd = "absent" THEN Ret(m, FALSE)
    ELSE IF e.ekosCmd = "raises" THEN Ret(Call(m, "ekos.start"), FALSE)
    ELSE IF e.ekosCmd = "ok"
    THEN PollEkos([m EXCEPT !.log = Append(@, "ekos.start"), !.rem.ekos = 1],
                  e, TRUE, EkosPolls)
    ELSE PollEkos(Call(m, "ekos.start"), e, TRUE, EkosPolls)

\* start_ekos() going on to the start command when the HTTP actions failed
start_ekos_prepared_ungated(m, e) == start_ekos_command(connect(m, e), e)

\* start_ekos() after the HTTP actions: reconnects, then starts
start_ekos_prepared(m, e) ==
    IF ~m.ret THEN Ret(m, FALSE) ELSE start_ekos_command(connect(m, e), e)

\* start_ekos() running the HTTP actions after the start instead of before
start_ekos_checked_http_last(m, e) ==
    IF m.ret THEN Ret(m, TRUE) ELSE before_ekos_start(start_ekos_prepared(Ret(m, TRUE), e), e)

\* start_ekos() starting the service whether it runs or not
start_ekos_checked_always(m, e) == start_ekos_prepared(before_ekos_start(m, e), e)

\* start_ekos() after its own is_ekos_running()
start_ekos_checked(m, e) ==
    IF m.ret THEN Ret(m, TRUE) ELSE start_ekos_prepared(before_ekos_start(m, e), e)

start_ekos(m, e) == start_ekos_checked(is_ekos_running(m, e), e)

\* stop_ekos() returning what its after-stop actions return
stop_ekos_stopped_http_fatal(m, e) ==
    IF ~m.ret THEN Ret(m, FALSE) ELSE after_ekos_stop(m, e)

\* stop_ekos() running its after-stop actions whatever the polls have seen
stop_ekos_stopped_acts_anyway(m, e) ==
    IF ~m.ret THEN Ret(after_ekos_stop(m, e), FALSE) ELSE Ret(after_ekos_stop(m, e), TRUE)

\* stop_ekos() after the polls: the HTTP actions when the service has stopped
stop_ekos_stopped(m, e) ==
    IF ~m.ret THEN Ret(m, FALSE) ELSE Ret(after_ekos_stop(m, e), TRUE)

\* stop_ekos() from the call of the service's stop method
stop_ekos_command(m, e) ==
    IF e.ekosCmd = "absent" THEN Ret(m, FALSE)
    ELSE IF e.ekosCmd = "raises" THEN Ret(Call(m, "ekos.stop"), FALSE)
    ELSE IF e.ekosCmd = "ok"
    THEN stop_ekos_stopped(
             PollEkos([m EXCEPT !.log = Append(@, "ekos.stop"), !.rem.ekos = 0],
                      e, FALSE, EkosPolls), e)
    ELSE stop_ekos_stopped(PollEkos(Call(m, "ekos.stop"), e, FALSE, EkosPolls), e)

\* stop_ekos() with the scheduler status read: m.ret is the status
stop_ekos_scheduler(m, e) ==
    stop_ekos_command(IF m.ret = Running THEN abort_scheduler(m, e) ELSE m, e)

\* stop_ekos() after its own is_ekos_running()
stop_ekos_checked(m, e) ==
    IF ~m.ret THEN Ret(m, TRUE) ELSE stop_ekos_scheduler(get_scheduler_status(m, e), e)

stop_ekos(m, e) == stop_ekos_checked(is_ekos_running(m, e), e)

ensure_ekos_running_checked(m, e) ==
    IF ~m.ret THEN start_ekos(m, e) ELSE Ret(m, TRUE)

ensure_ekos_running(m, e) == ensure_ekos_running_checked(is_ekos_running(m, e), e)

\* ensure_scheduler_running() with the status read: m.ret is the status
ensure_scheduler_running_status(m, e) ==
    IF m.ret = Running THEN Ret(m, TRUE) ELSE start_scheduler(m, e)

\* ensure_scheduler_running() going on without the service
ensure_scheduler_running_ensured_anyway(m, e) ==
    ensure_scheduler_running_status(get_scheduler_status(m, e), e)

\* ensure_scheduler_running() after ensure_ekos_running()
ensure_scheduler_running_ensured(m, e) ==
    IF ~m.ret THEN Ret(m, FALSE)
    ELSE ensure_scheduler_running_status(get_scheduler_status(m, e), e)

ensure_scheduler_running(m, e) ==
    ensure_scheduler_running_ensured(ensure_ekos_running(m, e), e)

\* initialize_scheduler(), in_recursion=False, once connected: a scheduler
\* whose status property answers is kept, else it is introspected again
initialize_scheduler_plain_connected(m, e) ==
    IF ~m.ret THEN Ret(m, FALSE)
    ELSE IF m.sess.scheduler /\ dbus_property_operation(m, e) # None THEN Ret(m, TRUE)
    ELSE initialize_scheduler_connected(m, e)

initialize_scheduler_plain(m, e) ==
    initialize_scheduler_plain_connected(
        EnsureConnected(Step(m, "initialize_scheduler"), e), e)

\* load_methods, in their order
LoadMethods == <<"call_load_scheduler", "loadScheduler", "call_load", "load">>

\* How the remote scheduler takes a playlist:
\*   methods  - each of load_methods: "absent", "raises" or "ok"
\*   generic  - the attribute load_scheduler, which only call_method() tries
\*   readback - call_method(scheduler, "get_json_jobs"): "jobs", "nothing",
\*              or "raises"
Loaders ==
    [methods : [DOMAIN LoadMethods -> {"absent", "raises", "ok"}],
     generic : {"absent", "raises", "ok"},
     readback : {"jobs", "nothing", "raises"}]

\* the playlist_path given: whether it is non-empty, whether the file
\* exists, whether it ends with .esl
Playlists == [path : BOOLEAN, exists : BOOLEAN, esl : BOOLEAN]

\* load_playlist() counting a read-back that shows no job as a failure
load_playlist_submitted_strict(m, ld) ==
    Ret(Call(Call(m, "sleep2"), "sched.jobs"), ld.readback = "jobs")

\* load_playlist() after a submission that has not raised: the pause, the
\* read-back, and True whatever the read-back gives
load_playlist_submitted(m, ld) ==
    Ret(Call(Call(m, "sleep2"), "sched.jobs"), TRUE)

\* load_playlist(), the last attempt: call_method(scheduler,
\* "load_scheduler", path) gives None when nothing can be called or the call
\* raises, and True is returned after the pause
load_playlist_generic(m, ld) ==
    IF ld.generic = "ok" THEN Ret(Call(Call(m, "sched.load"), "sleep2"), TRUE)
    ELSE IF ld.generic = "raises" \/ ld.methods[1] # "absent"
    THEN Ret(Call(Call(m, "sched.load.raised"), "sleep2"), TRUE)
    ELSE Ret(Call(m, "sleep2"), TRUE)

\* load_playlist(), the loop over load_methods from the i-th on
RECURSIVE load_playlist_from(_, _, _)
load_playlist_from(m, ld, i) ==
    IF i > Len(LoadMethods) THEN load_playlist_generic(m, ld)
    ELSE IF ld.methods[i] = "ok"
    THEN load_playlist_submitted(Call(m, "sched.load"), ld)
    ELSE IF ld.methods[i] = "raises"
    THEN load_playlist_from(Call(m, "sched.load.raised"), ld, i + 1)
    ELSE load_playlist_from(m, ld, i + 1)

\* load_playlist() after initialize_scheduler()
load_playlist_initialized(m, ld) ==
    IF ~m.ret THEN Ret(m, FALSE) ELSE load_playlist_from(Step(m, "load"), ld, 1)

\* load_playlist() after ensure_ekos_running()
load_playlist_ensured(m, e, ld) ==
    IF ~m.ret THEN Ret(m, FALSE)
    ELSE load_playlist_initialized(initialize_scheduler_plain(m, e), ld)

\* load_playlist() once connected
load_playlist_connected(m, e, ld) ==
    IF ~m.ret THEN Ret(m, FALSE)
    ELSE load_playlist_ensured(ensure_ekos_running(m, e), e, ld)

\* load_playlist() going on without looking at the path
load_playlist_unchecked(m, e, pl, ld) ==
    load_playlist_connected(EnsureConnected(m, e), e, ld)

\* load_playlist(playlist_path): an empty path and a missing file end it
\* before anything else; the extension is only logged
load_playlist(m, e, pl, ld) ==
    IF ~pl.path \/ ~pl.exists THEN Ret(m, FALSE)
    ELSE load_playlist_connected(EnsureConnected(m, e), e, ld)

----------------------------------------------------------------------------
(* AlpacaWeatherMonitor *)

\* What the safety source answers to a request that gets through:
\*   "safe"    - ErrorNumber 0, Value true
\*   "unsafe"  - ErrorNumber 0, Value false
\*   "novalue" - ErrorNumber 0, no Value
\*   "error"   - a non-zero ErrorNumber
\*   "truthy"  - ErrorNumber 0, a Value that is not a JSON boolean and that
\*               bool() takes for True (the string "false", the number 2)
\*   "nonumber"- no ErrorNumber, Value true
Responses == {"safe", "unsafe", "novalue", "error", "truthy", "nonumber"}

\* response.get("ErrorNumber", 0) == 0
Succeeded(r) == r # "error"

\* bool(response.get("Value", False))
Value(r) == r \in {"safe", "truthy", "nonumber"}

\* How the safety source treats one series of attempts (one _retry_request):
\* the first `fails` requests fail at transport level, the next is answered
\* with `resp`.
Series(f, r) == [fails |-> f, resp |-> r]

\* The weather monitor during one operation: its fields connected and
\* max_retries, the source's behaviour (one series per _retry_request to
\* come), the requests and inter-attempt delays made so far, the outcome of
\* the last _retry_request ("raise" or the response) and the method's
\* return value.
Weather(c, mx, src) ==
    [connected |-> c, max |-> mx, src |-> src,
     requests |-> 0, delays |-> 0, result |-> "none", ret |-> FALSE]

\* the retry loop sleeping after every failed attempt, the last one too
RECURSIVE RetryLoopSleepsLast(_, _, _)
RetryLoopSleepsLast(w, attempt, failed) ==
    IF attempt > w.max THEN [w EXCEPT !.result = "raise"]
    ELSE IF failed >= Head(w.src).fails
    THEN [w EXCEPT !.requests = @ + 1, !.result = Head(w.src).resp]
    ELSE RetryLoopSleepsLast([w EXCEPT !.requests = @ + 1, !.delays = @ + 1],
                             attempt + 1, failed + 1)

\* the retry loop taking a response with a non-zero ErrorNumber for a failed
\* attempt
RECURSIVE RetryLoopRetriesErrors(_, _, _)
RetryLoopRetriesErrors(w, attempt, failed) ==
    IF attempt > w.max THEN [w EXCEPT !.result = "raise"]
    ELSE IF failed >= Head(w.src).fails /\ Head(w.src).resp # "error"
    THEN [w EXCEPT !.requests = @ + 1, !.result = Head(w.src).resp]
    ELSE IF attempt < w.max
    THEN RetryLoopRetriesErrors([w EXCEPT !.requests = @ + 1, !.delays = @ + 1],
                                attempt + 1, failed + 1)
    ELSE RetryLoopRetriesErrors([w EXCEPT !.requests = @ + 1], attempt + 1, failed + 1)

\* for attempt in range(1, self.max_retries + 1): try: return request_func()
\*     except: if attempt < self.max_retries: time.sleep(retry_delay)
\* raise last_exception
RECURSIVE RetryLoop(_, _, _)
RetryLoop(w, attempt, failed) ==
    IF attempt > w.max THEN [w EXCEPT !.result = "raise"]
    ELSE IF failed >= Head(w.src).fails
    THEN [w EXCEPT !.requests = @ + 1, !.result = Head(w.src).resp]
    ELSE IF attempt < w.max
    THEN RetryLoop([w EXCEPT !.requests = @ + 1, !.delays = @ + 1],
                   attempt + 1, failed + 1)
    ELSE RetryLoop([w EXCEPT !.requests = @ + 1], attempt + 1, failed + 1)

\* _retry_request(request_func) with request_func a GET of issafe
retry_request(w) ==
    [RetryLoop(w, 1, 0) EXCEPT !.src = Tail(w.src)]

\* connect() after its request
weather_connect_response(w) ==
    IF w.result = "raise" \/ ~Succeeded(w.result) THEN [w EXCEPT !.ret = FALSE]
    ELSE [w EXCEPT !.connected = TRUE, !.ret = TRUE]

weather_connect(w) == weather_connect_response(retry_request(w))

weather_disconnect(w) == [w EXCEPT !.connected = FALSE, !.ret = TRUE]

\* is_safe() taking a request without a valid answer for a safe reading
is_safe_response_optimistic(w) ==
    IF w.result = "raise" \/ ~Succeeded(w.result) THEN [w EXCEPT !.ret = TRUE]
    ELSE [w EXCEPT !.ret = Value(w.result)]

\* is_safe() after its request
is_safe_response(w) ==
    IF w.result = "raise" \/ ~Succeeded(w.result) THEN [w EXCEPT !.ret = FALSE]
    ELSE [w EXCEPT !.ret = Value(w.result)]

\* is_safe() querying whether or not the connection has been made
is_safe_connected_regardless(w) == is_safe_response(retry_request(w))

\* is_safe() after the connection it may have had to make
is_safe_connected(w) ==
    IF ~w.ret THEN [w EXCEPT !.ret = FALSE] ELSE is_safe_response(retry_request(w))

is_safe(w) ==
    is_safe_connected(IF ~w.connected THEN weather_connect(w) ELSE [w EXCEPT !.ret = TRUE])

----------------------------------------------------------------------------
(* WeatherMonitoringSystem.check_weather_and_update_ekos *)

\* The evaluation's record: the weather monitor w and the controller machine
\* m after it, the reading it got ("none" when it returned before is_safe(),
\* "failed" when is_safe() got no valid response, else the response) and the
\* controller methods it called, in order.
Evaluation(w, m, reading, calls) ==
    [w |-> w, m |-> m, reading |-> reading, calls |-> calls]

ReadingOf(w) ==
    IF w.result \in Responses /\ Succeeded(w.result) THEN w.result ELSE "failed"

\* the safe branch with the scheduler status read: m.ret is the status
SafeBranchStatus(w, m, e, calls) ==
    IF m.ret # Running
    THEN Evaluation(w, start_scheduler(m, e), ReadingOf(w),
                    calls \o <<"get_scheduler_status", "start_scheduler">>)
    ELSE Evaluation(w, m, ReadingOf(w), Append(calls, "get_scheduler_status"))

\* the safe branch with the service ensured: m.ret is whether it runs
SafeBranchService(w, m, e, calls) ==
    IF ~m.ret THEN Evaluation(w, m, ReadingOf(w), calls)
    ELSE SafeBranchStatus(w, get_scheduler_status(m, e), e, calls)

\* the safe branch after is_ekos_running()
SafeBranchChecked(w, m, e) ==
    IF ~m.ret
    THEN SafeBranchService(w, start_ekos(m, e), e, <<"is_ekos_running", "start_ekos">>)
    ELSE SafeBranchService(w, m, e, <<"is_ekos_running">>)

\* the branch `if is_safe:`
SafeBranch(w, m, e) == SafeBranchChecked(w, is_ekos_running(m, e), e)

\* the unsafe branch after the abort: the option stop_ekos_on_unsafe
UnsafeBranchStop(w, m, e, stop_ekos_on_unsafe, calls) ==
    IF stop_ekos_on_unsafe
    THEN Evaluation(w, stop_ekos(m, e), ReadingOf(w), Append(calls, "stop_ekos"))
    ELSE Evaluation(w, m, ReadingOf(w), calls)

\* the unsafe branch leaving the service alone once it has aborted
UnsafeBranchStatusAbortOnly(w, m, e, stop_ekos_on_unsafe) ==
    IF m.ret = Running
    THEN UnsafeBranchStop(w, abort_scheduler(m, e), e, FALSE,
             <<"is_ekos_running", "get_scheduler_status", "abort_scheduler">>)
    ELSE UnsafeBranchStop(w, m, e, stop_ekos_on_unsafe,
             <<"is_ekos_running", "get_scheduler_status">>)

\* the unsafe branch with the scheduler status read: m.ret is the status
UnsafeBranchStatus(w, m, e, stop_ekos_on_unsafe) ==
    IF m.ret = Running
    THEN UnsafeBranchStop(w, abort_scheduler(m, e), e, stop_ekos_on_unsafe,
             <<"is_ekos_running", "get_scheduler_status", "abort_scheduler">>)
    ELSE UnsafeBranchStop(w, m, e, stop_ekos_on_unsafe,
             <<"is_ekos_running", "get_scheduler_status">>)

\* the unsafe branch after is_ekos_running()
UnsafeBranchChecked(w, m, e, stop_ekos_on_unsafe) ==
    IF ~m.ret THEN Evaluation(w, m, ReadingOf(w), <<"is_ekos_running">>)
    ELSE UnsafeBranchStatus(w, get_scheduler_status(m, e), e, stop_ekos_on_unsafe)

\* the branch `else:`
UnsafeBranch(w, m, e, stop_ekos_on_unsafe) ==
    UnsafeBranchChecked(w, is_ekos_running(m, e), e, stop_ekos_on_unsafe)

\* the evaluation with the reading: w.ret is is_safe()'s value
check_weather_read(w, m, e, stop_ekos_on_unsafe) ==
    IF w.ret THEN SafeBranch(w, m, e)
    ELSE UnsafeBranch(w, m, e, stop_ekos_on_unsafe)

\* the evaluation after the connection check of the weather monitor
check_weather_connected(w, m, e, stop_ekos_on_unsafe) ==
    IF ~w.ret THEN Evaluation(w, m, "none", <<>>)
    ELSE check_weather_read(is_safe(w), m, e, stop_ekos_on_unsafe)

check_weather_and_update_ekos(isRunning, w, m, e, stop_ekos_on_unsafe) ==
    IF ~isRunning THEN Evaluation(w, m, "none", <<>>)
    ELSE check_weather_connected(
             IF ~w.connected THEN weather_connect(w) ELSE [w EXCEPT !.ret = TRUE],
             m, e, stop_ekos_on_unsafe)

----------------------------------------------------------------------------
(* utils.py: the configuration file, written by yaml.dump and read by      *)
(* yaml.safe_load                                                           *)

\* a Python value: its type, its text (the key, for the entry of a
\* dictionary) and what it contains
Py(t, s, items) == [t |-> t, s |-> s, items |-> items]

PyStr(s) == Py("str", s, <<>>)

PyBool(s) == Py("bool", s, <<>>)

PyInt(s) == Py("int", s, <<>>)

PyNone == Py("none", "", <<>>)

\* the entry of a dictionary: the key is a str
PyItem(k, v) == Py("item", k, <<v>>)

\* a node of the YAML document in the file: its kind, its explicit tag ("",
\* when the tag is left to the resolver), the style and the text of a scalar
Node(kind, tag, style, text, items) ==
    [kind |-> kind, tag |-> tag, style |-> style, text |-> text, items |-> items]

\* yaml.resolver: the tag a plain scalar takes from its text (YAML 1.1)
BoolTexts == {"true", "false", "yes", "no", "on", "off"}

NullTexts == {"null", "~", ""}

IntTexts == {"0", "1"}

Resolve(text) ==
    IF text \in BoolTexts THEN "bool"
    ELSE IF text \in NullTexts THEN "null"
    ELSE IF text \in IntTexts THEN "int"
    ELSE "str"

\* a writer that leaves every scalar plain
EmitScalarPlain(tag, text) == Node("scalar", "", "plain", text, <<>>)

\* the emitter: a scalar is written plain when the resolver gives its tag
\* back from the text, a str that would resolve to something else is
\* quoted, anything else carries its tag
EmitScalar(tag, text) ==
    IF Resolve(text) = tag THEN Node("scalar", "", "plain", text, <<>>)
    ELSE IF tag = "str" THEN Node("scalar", "", "quoted", text, <<>>)
    ELSE Node("scalar", tag, "plain", text, <<>>)

\* yaml.dump(config, default_flow_style=False, sort_keys=False): the
\* representer of yaml.Dumper, then the emitter; a tuple is written as a
\* sequence tagged python/tuple, the entries of a dictionary keep their order
RECURSIVE yaml_dump(_)
yaml_dump(v) ==
    IF v.t = "str" THEN EmitScalar("str", v.s)
    ELSE IF v.t = "bool" THEN EmitScalar("bool", v.s)
    ELSE IF v.t = "int" THEN EmitScalar("int", v.s)
    ELSE IF v.t = "none" THEN EmitScalar("null", "null")
    ELSE IF v.t = "list"
    THEN Node("sequence", "", "block", "", [i \in DOMAIN v.items |-> yaml_dump(v.items[i])])
    ELSE IF v.t = "tuple"
    THEN Node("sequence", "python/tuple", "block", "",
              [i \in DOMAIN v.items |-> yaml_dump(v.items[i])])
    ELSE IF v.t = "dict"
    THEN Node("mapping", "", "block", "", [i \in DOMAIN v.items |-> yaml_dump(v.items[i])])
    ELSE Node("pair", "", "block", "", <<EmitScalar("str", v.s), yaml_dump(v.items[1])>>)

\* the tag the composer gives a node: the explicit one, or the resolver's
TagOf(n) ==
    IF n.tag # "" THEN n.tag
    ELSE IF n.kind = "scalar" THEN (IF n.style = "plain" THEN Resolve(n.text) ELSE "str")
    ELSE IF n.kind = "sequence" THEN "seq"
    ELSE IF n.kind = "mapping" THEN "map"
    ELSE n.kind

\* yaml.SafeConstructor has a constructor for these tags only
SafeTags == {"str", "bool", "int", "null", "seq", "map", "pair", "empty"}

\* the document is built without ConstructorError
RECURSIVE Constructs(_)
Constructs(n) ==
    /\ TagOf(n) \in SafeTags
    /\ \A i \in DOMAIN n.items : Constructs(n.items[i])

\* SafeConstructor: the Python value of a node
RECURSIVE construct(_)
construct(n) ==
    IF TagOf(n) = "str" THEN PyStr(n.text)
    ELSE IF TagOf(n) = "bool"
    THEN PyBool(IF n.text \in {"true", "yes", "on"} THEN "true" ELSE "false")
    ELSE IF TagOf(n) = "int" THEN PyInt(n.text)
    ELSE IF TagOf(n) = "seq"
    THEN Py("list", "", [i \in DOMAIN n.items |-> construct(n.items[i])])
    ELSE IF TagOf(n) = "map"
    THEN Py("dict", "", [i \in DOMAIN n.items |-> construct(n.items[i])])
    ELSE IF TagOf(n) = "pair"
    THEN PyItem(construct(n.items[1]).s, construct(n.items[2]))
    ELSE PyNone

\* the document of an empty stream: safe_load returns None
EmptyDocument == Node("empty", "", "block", "", <<>>)

\* what is stored at a path: nothing, or a text that the YAML scanner and
\* parser accept or not
Stored(exists, well_formed, doc) ==
    [exists |-> exists, well_formed |-> well_formed, doc |-> doc]

Missing == Stored(FALSE, FALSE, EmptyDocument)

IllFormed == Stored(TRUE, FALSE, EmptyDocument)

Paths == {"config.yaml", "conf/config.yaml"}

NoFiles == [p \in Paths |-> Missing]

\* what a call of load_config() gives its caller
Returned(v) == [raised |-> "none", value |-> v]

Raises(exc) == [raised |-> exc, value |-> PyNone]

\* yaml.safe_load(file): the scanner and parser, then the constructor
safe_load(f) ==
    IF ~f.well_formed THEN Raises("YAMLError")
    ELSE IF ~Constructs(f.doc) THEN Raises("YAMLError")
    ELSE Returned(construct(f.doc))

\* a load_config() that takes a missing file for an empty one
load_config_missing_is_empty(fs, config_path) ==
    IF ~fs[config_path].exists THEN Returned(PyNone)
    ELSE safe_load(fs[config_path])

\* load_config(config_path)
load_config(fs, config_path) ==
    IF ~fs[config_path].exists THEN Raises("FileNotFoundError")
    ELSE safe_load(fs[config_path])

\* save_config(config, config_path): the parent directory is made, the file
\* is opened for writing and holds the dump of config
save_config(fs, config, config_path) ==
    [fs EXCEPT ![config_path] = Stored(TRUE, TRUE, yaml_dump(config))]

----------------------------------------------------------------------------
(* Bounds and input sets *)

\* largest max_retries the weather monitor is configured with
MaxRetries == 3

\* alpaca_config.get("max_retries", 3)
DefaultMaxRetries == 3

NoOp == [op |-> "none"]

NoPrev == [reading |-> "none", applied |-> FALSE, unresolved |-> FALSE]

Configs == [stop_ekos_on_unsafe : BOOLEAN, max_retries : 1..MaxRetries]

DefaultConfig == [stop_ekos_on_unsafe |-> FALSE, max_retries |-> DefaultMaxRetries]

DefaultRemote == [up |-> TRUE, ekos |-> 0, sched |-> Idle]

\* a behaviour of the remote side for the scheduler's operations, which read
\* nothing but cap and schedCmd
SchedulerBehaviour(cap, cmd) ==
    [cap |-> cap, ekosCap |-> "status", schedCmd |-> cmd, ekosCmd |-> "ok",
     http |-> "off"]

\* one status capability of each kind: readable by property (is_connected()
\* holds), readable only by the proxy (is_connected() fails), unreadable
CapClasses ==
    {[direct |-> "ok", prefixed |-> "absent", prop |-> "ok"],
     [direct |-> "absent", prefixed |-> "ok", prop |-> "fails"],
     [direct |-> "raises", prefixed |-> "ok", prop |-> "fails"]}

ServiceBehaviours ==
    [cap : CapClasses,
     ekosCap : {"status", "profiles", "none"},
     schedCmd : {"ok", "ignored", "absent"},
     ekosCmd : {"ok", "slow", "ignored", "absent", "raises"},
     http : {"off", "ok", "fail"}]

----------------------------------------------------------------------------
(* The controller's operations, one call at a time *)

ekosOnly == <<wconn, cfg, prev, running, jobs, queued, stats, phase, files>>

InitRest ==
    /\ running = FALSE
    /\ jobs = 0
    /\ queued = 0
    /\ stats = [submitted |-> 0, dropped |-> 0]
    /\ phase = "init"
    /\ files = NoFiles

InitEkos ==
    /\ sess = NoSession
    /\ rem \in Remotes
    /\ wconn = FALSE
    /\ cfg = DefaultConfig
    /\ last = NoOp
    /\ prev = NoPrev
    /\ InitRest

\* a method is called when the previous call has returned to its caller, and
\* leaves behind the session, the remote side and what it did
Done(name, e, out) ==
    /\ last = NoOp
    /\ sess' = out.sess
    /\ rem' = out.rem
    /\ last' = [op |-> name, sess |-> sess, rem |-> rem, e |-> e, out |-> out]
    /\ UNCHANGED ekosOnly

Connect ==
    LET e == SchedulerBehaviour(CHOOSE c \in CapClasses : c.prop = "ok", "ok")
    IN  Done("connect", e, connect(Machine(sess, rem), e))

Disconnect ==
    LET e == SchedulerBehaviour(CHOOSE c \in CapClasses : c.prop = "ok", "ok")
    IN  Done("disconnect", e, disconnect(Machine(sess, rem)))

StartScheduler ==
    /\ last = NoOp
    /\ \E cap \in StatusCaps, cmd \in {"ok", "ignored", "absent"} :
        LET e == SchedulerBehaviour(cap, cmd)
        IN  Done("start_scheduler", e, start_scheduler(Machine(sess, rem), e))

AbortScheduler ==
    /\ last = NoOp
    /\ \E cap \in StatusCaps, cmd \in {"ok", "ignored", "absent"} :
        LET e == SchedulerBehaviour(cap, cmd)
        IN  Done("abort_scheduler", e, abort_scheduler(Machine(sess, rem), e))

StopScheduler ==
    /\ last = NoOp
    /\ \E cap \in StatusCaps, cmd \in {"ok", "ignored", "absent"} :
        LET e == SchedulerBehaviour(cap, cmd)
        IN  Done("stop_scheduler", e, stop_scheduler(Machine(sess, rem), e))

StartEkos ==
    /\ last = NoOp
    /\ \E e \in ServiceBehaviours :
        /\ e.schedCmd = "ok"
        /\ Done("start_ekos", e, start_ekos(Machine(sess, rem), e))

StopEkos ==
    /\ last = NoOp
    /\ \E e \in ServiceBehaviours :
        Done("stop_ekos", e, stop_ekos(Machine(sess, rem), e))

GetSchedulerStatus ==
    /\ last = NoOp
    /\ \E cap \in StatusCaps :
        LET e == SchedulerBehaviour(cap, "ok")
        IN  Done("get_scheduler_status", e, get_scheduler_status(Machine(sess, rem), e))

EnsureEkosRunning ==
    /\ last = NoOp
    /\ \E e \in ServiceBehaviours :
        /\ e.schedCmd = "ok"
        /\ Done("ensure_ekos_running", e, ensure_ekos_running(Machine(sess, rem), e))

EnsureSchedulerRunning ==
    /\ last = NoOp
    /\ \E e \in ServiceBehaviours :
        Done("ensure_scheduler_running", e,
             ensure_scheduler_running(Machine(sess, rem), e))

\* the remote control plane changes by itself: the service or the scheduler
\* is started, stopped or paused by its user, or goes away
RemoteChange ==
    /\ last = NoOp
    /\ \E r \in Remotes : r # rem /\ rem' = r
    /\ UNCHANGED <<sess, wconn, cfg, last, prev, running, jobs, queued, stats, phase,
                 files>>

\* the commands an evaluation can send to the control plane and the HTTP
\* actions it can run
StartCommands == {"http.before", "ekos.start", "sched.start"}

StopCommands == {"sched.stop", "ekos.stop", "http.after"}

Acted(log) == \E i \in DOMAIN log : log[i] \in StartCommands \cup StopCommands

\* what is remembered of an evaluation when the next one begins: its reading,
\* whether it brought the scheduler where the reading wants it by a command
\* of its own, and whether it called abort_scheduler() and left the scheduler
\* Running
Summary(l, r) ==
    [reading |-> l.reading,
     applied |-> \/ l.reading = "safe" /\ Sent(l.log, "sched.start") /\ r.sched = Running
                 \/ l.reading = "unsafe" /\ Sent(l.log, "sched.stop") /\ r.sched = Idle,
     unresolved |-> /\ l.reading \in {"unsafe", "novalue", "failed"}
                    /\ \E i \in DOMAIN l.calls : l.calls[i] = "abort_scheduler"
                    /\ r.sched = Running]

\* the caller takes the result of the call
Return ==
    /\ last # NoOp
    /\ last' = NoOp
    /\ prev' = IF last.op = "evaluation" THEN Summary(last, rem) ELSE prev
    /\ UNCHANGED <<sess, rem, wconn, cfg, running, jobs, queued, stats, phase, files>>

NextEkos ==
    \/ Connect
    \/ Disconnect
    \/ StartScheduler
    \/ AbortScheduler
    \/ StopScheduler
    \/ GetSchedulerStatus
    \/ StartEkos
    \/ StopEkos
    \/ EnsureEkosRunning
    \/ EnsureSchedulerRunning
    \/ RemoteChange
    \/ Return

SpecEkos == InitEkos /\ [][NextEkos]_vars

\* C7: a start_scheduler() call that reads the scheduler status as Running
\* returns True and sends no command: nothing but (re)connections goes to
\* the remote side and the remote side is left as it was, at every call.
C7_StartWhileRunningSendsNothing ==
    (last.op = "start_scheduler" /\ last.out.guard = Running) =>
        /\ last.out.ret = TRUE
        /\ \A i \in DOMAIN last.out.log : last.out.log[i] = "connect"
        /\ last.out.rem = last.rem

\* a repeated call: start_scheduler() on a connected session, status Running
C7_Witness ==
    /\ last.op = "start_scheduler"
    /\ last.sess.connected
    /\ last.out.guard = Running
    /\ last.out.ret = TRUE

\* C8: a stop_scheduler() or abort_scheduler() call that reads the scheduler
\* status as Idle returns True and sends no stop command.
C8_StopWhileIdleSendsNothing ==
    (last.op \in {"abort_scheduler", "stop_scheduler"} /\ last.out.guard = Idle) =>
        /\ last.out.ret = TRUE
        /\ \A i \in DOMAIN last.out.log : last.out.log[i] = "connect"
        /\ last.out.rem = last.rem

C8_Witness ==
    /\ last.op = "abort_scheduler"
    /\ last.out.guard = Idle
    /\ last.out.ret = TRUE

\* C9: from every session state, remote state and remote behaviour,
\* stop_scheduler() makes the remote calls abort_scheduler() makes, returns
\* what it returns and leaves the session and the remote side as it does.
C9_StopIsAbort ==
    /\ last.op = "stop_scheduler" =>
           last.out = abort_scheduler(Machine(last.sess, last.rem), last.e)
    /\ last.op = "abort_scheduler" =>
           last.out = stop_scheduler(Machine(last.sess, last.rem), last.e)

\* a stop_scheduler() that sends the stop command and sees it fail
C9_Witness ==
    /\ last.op = "stop_scheduler"
    /\ Sent(last.out.log, "sched.stop")
    /\ last.out.ret = FALSE

----------------------------------------------------------------------------
(* The weather monitor's operations, one call at a time *)

InitWeather ==
    /\ sess = NoSession
    /\ rem = DefaultRemote
    /\ wconn = FALSE
    /\ cfg \in {c \in Configs : ~c.stop_ekos_on_unsafe}
    /\ last = NoOp
    /\ prev = NoPrev
    /\ InitRest

\* the behaviours of the safety source towards one _retry_request
SourceSeries(mx) == {Series(f, r) : f \in 0..mx, r \in Responses}

WeatherDone(name, src, out) ==
    /\ last = NoOp
    /\ wconn' = out.connected
    /\ last' = [op |-> name, connected |-> wconn, src |-> src, out |-> out]
    /\ UNCHANGED <<sess, rem, cfg, prev, running, jobs, queued, stats, phase, files>>

WeatherConnect ==
    /\ last = NoOp
    /\ \E s1 \in SourceSeries(cfg.max_retries) :
        WeatherDone("weather_connect", <<s1>>,
                    weather_connect(Weather(wconn, cfg.max_retries, <<s1>>)))

WeatherDisconnect ==
    WeatherDone("weather_disconnect", <<>>,
                weather_disconnect(Weather(wconn, cfg.max_retries, <<>>)))

\* is_safe(): one series for the query of a connected monitor, one more
\* before it for the connection of a disconnected one
IsSafe ==
    /\ last = NoOp
    /\ \E s1, s2 \in SourceSeries(cfg.max_retries) :
        /\ wconn => s2 = s1
        /\ LET src == IF wconn THEN <<s1>> ELSE <<s1, s2>>
           IN  WeatherDone("is_safe", src,
                           is_safe(Weather(wconn, cfg.max_retries, src)))

NextWeather ==
    \/ WeatherConnect
    \/ WeatherDisconnect
    \/ IsSafe
    \/ Return

SpecWeather == InitWeather /\ [][NextWeather]_vars

\* C10: is_safe() on a connected monitor whose every request fails at
\* transport level makes exactly max_retries requests with max_retries - 1
\* delays between them and reports failure (False); and no is_safe() on a
\* connected monitor makes more than max_retries requests.
C10_RetryBound ==
    (last.op = "is_safe" /\ last.connected) =>
        /\ last.out.requests <= last.out.max
        /\ Head(last.src).fails >= last.out.max =>
               /\ last.out.requests = last.out.max
               /\ last.out.delays = last.out.max - 1
               /\ last.out.result = "raise"
               /\ last.out.ret = FALSE

\* every request of a three-attempt query has failed
C10_Witness ==
    /\ last.op = "is_safe"
    /\ last.connected
    /\ Head(last.src).fails >= last.out.max
    /\ last.out.max = DefaultMaxRetries
    /\ last.out.requests = DefaultMaxRetries

----------------------------------------------------------------------------
(* The evaluations of a started system, one after the other *)

\* the behaviours of the safety source towards the query of one evaluation:
\* an answer at once, well formed or not, or no answer to any request
TickSeries ==
    {Series(0, r) : r \in Responses} \cup {Series(DefaultMaxRetries, "safe")}

\* the behaviours of the remote side during one evaluation: the status is
\* readable by property or not at all, the service state by ekosStatus or
\* not at all
TickBehaviours ==
    {e \in ServiceBehaviours :
        /\ e.cap.direct # "absent"
        /\ e.ekosCap # "profiles"
        /\ e.ekosCmd # "absent"}

\* the state start() has reached when it sets running: both connections made
InitTick ==
    /\ rem \in {r \in Remotes : r.up}
    /\ sess = connect(Machine(NoSession, rem), SchedulerBehaviour(CHOOSE c \in CapClasses : c.prop = "ok", "ok")).sess
    /\ wconn = TRUE
    /\ cfg \in {c \in Configs : c.max_retries = DefaultMaxRetries}
    /\ last = NoOp
    /\ prev = NoPrev
    /\ running = TRUE
    /\ jobs = 1
    /\ queued = 0
    /\ stats = [submitted |-> 0, dropped |-> 0]
    /\ phase = "loop"
    /\ files = NoFiles

\* an evaluation that clears running when its reading has failed
RunningAfterStopsOnFailure(isRunning, ev) == isRunning /\ ev.reading # "failed"

\* self.running after an evaluation: no branch assigns it, and the except
\* clause of check_weather_and_update_ekos() logs and returns
RunningAfter(isRunning, ev) == isRunning

Evaluated(e, ev) ==
    /\ last = NoOp
    /\ running' = RunningAfter(running, ev)
    /\ sess' = ev.m.sess
    /\ rem' = ev.m.rem
    /\ wconn' = ev.w.connected
    /\ last' = [op |-> "evaluation", sess |-> sess, rem |-> rem, e |-> e,
                reading |-> ev.reading, isSafe |-> ev.w.ret,
                requests |-> ev.w.requests, calls |-> ev.calls, log |-> ev.m.log,
                steps |-> ev.m.steps]
    /\ UNCHANGED <<cfg, prev, jobs, queued, stats, phase, files>>

\* one run of check_weather_and_update_ekos()
Tick ==
    /\ last = NoOp
    /\ \E e \in TickBehaviours, s1 \in TickSeries :
        Evaluated(e, check_weather_and_update_ekos(
                         running, Weather(wconn, cfg.max_retries, <<s1>>),
                         Machine(sess, rem), e, cfg.stop_ekos_on_unsafe))

NextTick ==
    \/ Tick
    \/ RemoteChange
    \/ Return

SpecTick == InitTick /\ [][NextTick]_vars

\* what an evaluation's own is_ekos_running() answers, and the status its
\* get_scheduler_status() reads after it
ObservedService(l) == is_ekos_running(Machine(l.sess, l.rem), l.e).ret

ObservedStatus(l) ==
    get_scheduler_status(is_ekos_running(Machine(l.sess, l.rem), l.e), l.e).ret

Called(l, name) == \E i \in DOMAIN l.calls : l.calls[i] = name

\* C2: an evaluation whose reading equals the reading the evaluation before
\* it has applied (by a command that brought the scheduler where the reading
\* wants it) issues no command and runs no HTTP action, whatever the remote
\* scheduler reports in between.
C2_Debounce ==
    (last.op = "evaluation" /\ prev.applied /\ last.reading = prev.reading) =>
        ~Acted(last.log)

C5_UnresolvedUnsafeRetried ==
    (/\ last.op = "evaluation"
     /\ prev.unresolved
     /\ last.reading = "unsafe"
     /\ last.rem.up
     /\ last.rem.sched = Running
     /\ last.e.cap.prop = "ok"
     /\ last.e.ekosCap = "status"
     /\ last.e.schedCmd # "absent") =>
        Sent(last.log, "sched.stop")

\* C6 as stated: every evaluation with a safe reading that sends the
\* scheduler's start command has run the configured before-start actions
\* before it.
C6_PreStartBeforeSchedulerStart ==
    (/\ last.op = "evaluation"
     /\ last.isSafe
     /\ last.e.http # "off"
     /\ Sent(last.log, "sched.start")) =>
        Before(last.log, "http.before", "sched.start")

\* C6 amended: an evaluation with a safe reading that finds the service not
\* running calls start_ekos(), which runs the configured before-start
\* actions before the service's start command, and the scheduler's start
\* command comes after the service's; an evaluation that finds the service
\* running runs no before-start action and sends no service start command.
C6_PreStartBeforeServiceStart ==
    (last.op = "evaluation" /\ last.isSafe) =>
        /\ ~ObservedService(last) =>
               /\ Len(last.calls) >= 2
               /\ last.calls[1] = "is_ekos_running"
               /\ last.calls[2] = "start_ekos"
               /\ last.e.http # "off" => Before(last.log, "http.before", "ekos.start")
               /\ Before(last.log, "ekos.start", "sched.start")
        /\ ObservedService(last) =>
               /\ ~Sent(last.log, "http.before")
               /\ ~Sent(last.log, "ekos.start")

\* the service was not running: actions, service start, scheduler start
C6_Witness ==
    /\ last.op = "evaluation"
    /\ last.isSafe
    /\ ~ObservedService(last)
    /\ Sent(last.log, "http.before")
    /\ Sent(last.log, "ekos.start")
    /\ Sent(last.log, "sched.start")
    /\ rem.sched = Running

----------------------------------------------------------------------------
(* WeatherMonitoringSystem.run(): start(), the polling loop, stop() *)

\* largest number of firings of the periodic job in a run
MaxPolls == 3

\* the behaviours of the safety source towards connect(): an answer, a
\* protocol error, no answer to any request
ConnectSeries ==
    {Series(0, "safe"), Series(0, "error"), Series(DefaultMaxRetries, "safe")}

\* the configuration's behavior.load_playlist and ekos.playlist_path, the
\* file behind the path and the remote scheduler's loaders
PlaylistConfigs == [configured : BOOLEAN, pl : Playlists, ld : Loaders]

\* what start() has made of the playlist: whether load_playlist() was
\* called, the session and the remote side it was called on, and what it
\* returned and did
Loaded(called, m, out) ==
    [called |-> called, sess |-> m.sess, rem |-> m.rem,
     ret |-> out.ret, log |-> out.log, steps |-> out.steps]

NotLoaded == Loaded(FALSE, Machine(NoSession, DefaultRemote), Machine(NoSession, DefaultRemote))

\* what start() returns and leaves of the weather monitor and the
\* controller, and what it has made of the playlist
Started(ok, w, m, load) == [ok |-> ok, w |-> w, m |-> m, load |-> load]

\* start() from running = True: the evaluation made at once
start_evaluated(ev, load) == Started(TRUE, ev.w, ev.m, load)

\* start() with the playlist loaded: the result is only logged
start_loaded(w, m, out, e, stop_ekos_on_unsafe) ==
    start_evaluated(
        check_weather_and_update_ekos(TRUE, w, Machine(out.sess, out.rem), e,
                                      stop_ekos_on_unsafe),
        Loaded(TRUE, m, out))

\* start() after the controller's connect()
start_ekos_connected(w, m, e, stop_ekos_on_unsafe, pc) ==
    IF ~m.ret THEN Started(FALSE, weather_disconnect(w), m, NotLoaded)
    ELSE IF pc.configured /\ pc.pl.path
    THEN start_loaded(w, m,
                      load_playlist(Machine(m.sess, m.rem), e, pc.pl, pc.ld),
                      e, stop_ekos_on_unsafe)
    ELSE start_evaluated(
             check_weather_and_update_ekos(TRUE, w, m, e, stop_ekos_on_unsafe),
             NotLoaded)

\* start() after the weather monitor's connect()
start_weather_connected(w, m, e, stop_ekos_on_unsafe, pc) ==
    IF ~w.ret THEN Started(FALSE, w, m, NotLoaded)
    ELSE start_ekos_connected(w, connect(m, e), e, stop_ekos_on_unsafe, pc)

start(w, m, e, stop_ekos_on_unsafe, pc) ==
    start_weather_connected(weather_connect(w), m, e, stop_ekos_on_unsafe, pc)

\* the event loop runs n queued coroutines
RECURSIVE RunQueued(_, _, _, _, _, _)
RunQueuedNext(n, isRunning, ev, e, stop_ekos_on_unsafe) ==
    RunQueued(n - 1, isRunning, ev.w, ev.m, e, stop_ekos_on_unsafe)

RunQueued(n, isRunning, w, m, e, stop_ekos_on_unsafe) ==
    IF n = 0 THEN Evaluation(w, m, "none", <<>>)
    ELSE RunQueuedNext(n, isRunning,
             check_weather_and_update_ekos(isRunning, w, m, e, stop_ekos_on_unsafe),
             e, stop_ekos_on_unsafe)

InitRun ==
    /\ sess = NoSession
    /\ rem \in Remotes
    /\ wconn = FALSE
    /\ cfg \in {c \in Configs : c.max_retries = DefaultMaxRetries}
    /\ last = NoOp
    /\ prev = NoPrev
    /\ InitRest

\* run() calls start(): setup() registers the periodic job, then the
\* connections and, when both are made, running = True and one evaluation
StartDone(e, pc, res) ==
    /\ phase = "init"
    /\ jobs' = 1
    /\ running' = res.ok
    /\ phase' = IF res.ok THEN "loop" ELSE "failed"
    /\ wconn' = res.w.connected
    /\ sess' = res.m.sess
    /\ rem' = res.m.rem
    /\ last' = [op |-> "start", e |-> e, pc |-> pc, ok |-> res.ok, load |-> res.load]
    /\ UNCHANGED <<cfg, prev, queued, stats, files>>

\* the playlists start() is configured with: none, a path whose file is
\* missing, a file with or without the .esl extension; and a scheduler that
\* takes the playlist by call_load_scheduler or has no loader at all
StartPlaylists ==
    {pc \in PlaylistConfigs :
        /\ pc.pl.path
        /\ pc.ld.generic = "absent"
        /\ pc.ld.readback = "jobs"
        /\ \A i \in 2..Len(LoadMethods) : pc.ld.methods[i] = "absent"
        /\ pc.ld.methods[1] # "raises"
        /\ ~pc.configured => ~pc.pl.exists /\ ~pc.pl.esl /\ pc.ld.methods[1] = "absent"
        /\ ~pc.pl.exists => pc.pl.esl /\ pc.ld.methods[1] = "absent"}

Start ==
    /\ phase = "init"
    /\ \E e \in TickBehaviours, s1 \in ConnectSeries, s2 \in TickSeries, pc \in StartPlaylists :
        StartDone(e, pc,
                  start(Weather(wconn, cfg.max_retries, <<s1, s2>>),
                        Machine(sess, rem), e, cfg.stop_ekos_on_unsafe, pc))

\* the loop of run() finds the periodic job due: run_pending() calls the
\* wrapper, which hands a coroutine to the event loop; nothing in the loop
\* of run() runs the event loop
Poll ==
    /\ phase = "loop"
    /\ running
    /\ jobs > 0
    /\ stats.submitted < MaxPolls
    /\ queued' = queued + 1
    /\ stats' = [stats EXCEPT !.submitted = @ + 1]
    /\ UNCHANGED <<sess, rem, wconn, cfg, last, prev, running, jobs, phase, files>>

\* stop(), from the signal handler: running = False, the jobs cleared, then
\* run_until_complete(disconnect()) runs the event loop, and with it the
\* coroutines queued so far, and the controller disconnects
StopDone(ev) ==
    /\ phase = "loop"
    /\ running' = FALSE
    /\ jobs' = 0
    /\ stats' = [stats EXCEPT !.dropped = @ + queued]
    /\ queued' = 0
    /\ wconn' = weather_disconnect(ev.w).connected
    /\ sess' = disconnect(ev.m).sess
    /\ rem' = ev.m.rem
    /\ phase' = "stopped"
    /\ UNCHANGED <<cfg, last, prev, files>>

\* a stop() that releases the sessions before it clears running: the
\* coroutines queued so far find running still True
stop_released_first(n, w, m, e, stop_ekos_on_unsafe) ==
    RunQueued(n, TRUE, w, m, e, stop_ekos_on_unsafe)

\* stop() up to its disconnections: running is False when
\* run_until_complete() lets the event loop run the n queued coroutines
stop(n, w, m, e, stop_ekos_on_unsafe) ==
    RunQueued(n, FALSE, w, m, e, stop_ekos_on_unsafe)

Stop ==
    StopDone(stop(queued,
                  Weather(wconn, cfg.max_retries,
                          [i \in 1..queued |-> Series(0, "safe")]),
                  Machine(sess, rem),
                  SchedulerBehaviour(CHOOSE c \in CapClasses : c.prop = "ok", "ok"),
                  cfg.stop_ekos_on_unsafe))

NextRun ==
    \/ Start
    \/ Poll
    \/ Stop
    \/ RemoteChange
    \/ Return

SpecRun == InitRun /\ [][NextRun]_vars

\* C1: a coroutine submitted by a firing of the periodic job is run by the
\* event loop while running is still True: it has been run by the time the
\* next firing, one poll interval later, submits another, and at most the
\* one submitted last is run after stop() has cleared running.
C1_PollIsEvaluated ==
    /\ queued <= 1
    /\ stats.dropped <= 1

----------------------------------------------------------------------------
(* The safety source's protocol errors and the lazy connection *)

\* C11 as stated: a query of a connected monitor that is answered with a
\* non-zero ErrorNumber at once is attempted again, max_retries times in
\* all with max_retries - 1 delays, before it is reported as failed.
C11_ProtocolErrorRetried ==
    (/\ last.op = "is_safe"
     /\ last.connected
     /\ Head(last.src) = Series(0, "error")) =>
        /\ last.out.requests = last.out.max
        /\ last.out.delays = last.out.max - 1
        /\ last.out.ret = FALSE

\* C11 amended: a response with a non-zero ErrorNumber ends the query: no
\* request follows it and no delay, so a query answered with it after f
\* transport failures has made f + 1 requests and f delays, and is_safe()
\* reports False.
C11_ProtocolErrorEndsQuery ==
    (/\ last.op = "is_safe"
     /\ last.connected
     /\ Head(last.src).resp = "error"
     /\ Head(last.src).fails < last.out.max) =>
        /\ last.out.requests = Head(last.src).fails + 1
        /\ last.out.delays = Head(last.src).fails
        /\ last.out.result = "error"
        /\ last.out.ret = FALSE

\* one transport failure, then a protocol error, with an attempt to spare
C11_Witness ==
    /\ last.op = "is_safe"
    /\ last.connected
    /\ Head(last.src) = Series(1, "error")
    /\ last.out.max = DefaultMaxRetries
    /\ last.out.requests = 2
    /\ last.out.ret = FALSE

\* C12: is_safe() on a disconnected monitor connects first; when the
\* connection is made it performs the query and leaves connected True,
\* whatever the query gives; when it is not made, is_safe() reports False,
\* sends no query and leaves connected False.
C12_LazyConnection ==
    (last.op = "is_safe" /\ ~last.connected) =>
        LET c == weather_connect(Weather(FALSE, last.out.max, <<last.src[1]>>))
        IN  /\ c.ret =>
                /\ last.out.connected
                /\ last.out.src = <<>>
                /\ last.out.requests > c.requests
                /\ last.out.ret = Value(last.out.result)
            /\ ~c.ret =>
                /\ ~last.out.connected
                /\ last.out.src = <<last.src[2]>>
                /\ last.out.requests = c.requests
                /\ last.out.ret = FALSE

\* a disconnected monitor has connected and read a safe value
C12_Witness ==
    /\ last.op = "is_safe"
    /\ ~last.connected
    /\ last.out.connected
    /\ last.out.src = <<>>
    /\ last.out.ret = TRUE

----------------------------------------------------------------------------
(* HttpActionClient: one request with its retries, a sequence of actions *)

\* largest http_actions.max_retries the client is configured with
MaxHttpRetries == 2

\* longest action sequence
MaxSteps == 2

\* self.config.get('delay_after_call', 5)
DefaultDelayAfterCall == 5

\* The client during one operation: its fields enabled, max_retries and
\* delay_after_call, what it has done so far (requests, sleeps between
\* attempts, pauses between actions, each with the index of its action)
\* and the method's return value.
HttpClient(c) ==
    [enabled |-> c.enabled, max_retries |-> c.max_retries,
     delay_after_call |-> c.delay_after_call, trace |-> <<>>, ret |-> FALSE]

HttpConfigs ==
    [enabled : BOOLEAN, max_retries : 0..MaxHttpRetries,
     delay_after_call : {DefaultDelayAfterCall}]

\* an action of the configuration: whether it has a url, its method, its
\* delay_after (None when it has none)
HttpSteps == [url : BOOLEAN, method : {"GET", "POST"}, delay_after : {None, 2}]

\* the actions that get as far as a request, and one of each kind that does not
UsedSteps ==
    {s \in HttpSteps : s.url /\ s.method = "GET"} \cup
    {[url |-> FALSE, method |-> "GET", delay_after |-> None],
     [url |-> TRUE, method |-> "POST", delay_after |-> None]}

\* How the server treats the attempts of one action: the first `fails`
\* attempts end as `kind` ("status": a status outside 200..299; "conn": an
\* aiohttp.ClientError), the next as `then` ("ok": a 2xx status; "timeout":
\* an exception that is no ClientError).
HttpServers(mx) ==
    [kind : {"status", "conn"}, fails : 0..(mx + 1), then : {"ok", "timeout"}]

Outcome(srv, attempt) == IF attempt < srv.fails THEN srv.kind ELSE srv.then

HttpEvent(i, ev, d) == [step |-> i, ev |-> ev, d |-> d]

HttpDo(h, i, ev, d) == [h EXCEPT !.trace = Append(@, HttpEvent(i, ev, d))]

HttpRet(h, v) == [h EXCEPT !.ret = v]

RECURSIVE Attempts(_, _, _, _)

\* one attempt, the request made: a 2xx returns True; another status is
\* tried again at once, a ClientError after a sleep of one second, while
\* attempt < max_retries; any other exception returns False
AttemptOutcome(h, i, srv, attempt) ==
    IF Outcome(srv, attempt) = "ok" THEN HttpRet(h, TRUE)
    ELSE IF Outcome(srv, attempt) = "timeout" THEN HttpRet(h, FALSE)
    ELSE IF attempt >= h.max_retries THEN HttpRet(h, FALSE)
    ELSE IF Outcome(srv, attempt) = "status" THEN Attempts(h, i, srv, attempt + 1)
    ELSE Attempts(HttpDo(h, i, "sleep", 1), i, srv, attempt + 1)

\* the loop making one attempt less: range(self.max_retries)
AttemptsOneLess(h, i, srv, attempt) ==
    IF attempt >= h.max_retries THEN HttpRet(h, FALSE)
    ELSE AttemptOutcome(HttpDo(h, i, "request", 0), i, srv, attempt)

\* for attempt in range(self.max_retries + 1)
Attempts(h, i, srv, attempt) ==
    IF attempt > h.max_retries THEN HttpRet(h, FALSE)
    ELSE AttemptOutcome(HttpDo(h, i, "request", 0), i, srv, attempt)

\* execute_http_request(action) for the action of index i
execute_http_request(h, i, step, srv) ==
    IF ~h.enabled THEN HttpRet(h, TRUE)
    ELSE IF ~step.url THEN HttpRet(h, FALSE)
    ELSE IF step.method # "GET" THEN HttpRet(h, FALSE)
    ELSE Attempts(h, i, srv, 0)

\* action.get('delay_after', self.delay_after_call)
DelayAfter(h, step) ==
    IF step.delay_after = None THEN h.delay_after_call ELSE step.delay_after

RECURSIVE SequenceFrom(_, _, _, _)

\* the sequence going on after a failed action
SequenceAfterKeepsGoing(h, steps, srvs, i) ==
    SequenceFrom(IF i < Len(steps) /\ h.ret THEN HttpDo(h, i, "pause", DelayAfter(h, steps[i])) ELSE h,
                 steps, srvs, i + 1)

\* the sequence pausing after its last action too
SequenceAfterPausesLast(h, steps, srvs, i) ==
    IF ~h.ret THEN HttpRet(h, FALSE)
    ELSE SequenceFrom(HttpDo(h, i, "pause", DelayAfter(h, steps[i])), steps, srvs, i + 1)

\* the body of the loop after execute_http_request(action): h.ret is success
SequenceAfter(h, steps, srvs, i) ==
    IF ~h.ret THEN HttpRet(h, FALSE)
    ELSE SequenceFrom(IF i < Len(steps) THEN HttpDo(h, i, "pause", DelayAfter(h, steps[i])) ELSE h,
                      steps, srvs, i + 1)

\* for i, action in enumerate(actions), from the action of index i on
SequenceFrom(h, steps, srvs, i) ==
    IF i > Len(steps) THEN HttpRet(h, TRUE)
    ELSE SequenceAfter(execute_http_request(h, i, steps[i], srvs[i]), steps, srvs, i)

execute_action_sequence(h, steps, srvs) ==
    IF ~h.enabled \/ steps = <<>> THEN HttpRet(h, TRUE)
    ELSE SequenceFrom(h, steps, srvs, 1)

\* the client's operations, one call at a time; cfg is the section
\* http_actions of the configuration
InitHttp ==
    /\ sess = NoSession
    /\ rem = DefaultRemote
    /\ wconn = FALSE
    /\ cfg \in HttpConfigs
    /\ last = NoOp
    /\ prev = NoPrev
    /\ InitRest

HttpDone(name, steps, srvs, out) ==
    /\ last = NoOp
    /\ last' = [op |-> name, steps |-> steps, srvs |-> srvs, out |-> out]
    /\ UNCHANGED <<sess, rem, wconn, cfg, prev, running, jobs, queued, stats, phase,
                 files>>

ExecuteHttpRequest ==
    /\ last = NoOp
    /\ \E step \in UsedSteps, srv \in HttpServers(cfg.max_retries) :
        HttpDone("execute_http_request", <<step>>, <<srv>>,
                 execute_http_request(HttpClient(cfg), 1, step, srv))

\* the sequences of at most MaxSteps actions, each with its server
StepLists == UNION {[1..n -> UsedSteps] : n \in 0..MaxSteps}

ExecuteActionSequence ==
    /\ last = NoOp
    /\ \E steps \in StepLists :
        \E srvs \in [1..Len(steps) -> HttpServers(cfg.max_retries)] :
            HttpDone("execute_action_sequence", steps, srvs,
                     execute_action_sequence(HttpClient(cfg), steps, srvs))

NextHttp ==
    \/ ExecuteHttpRequest
    \/ ExecuteActionSequence
    \/ Return

SpecHttp == InitHttp /\ [][NextHttp]_vars

\* what a sequence's trace and inputs say about its action of index i
Requests(trace, i) ==
    Cardinality({k \in DOMAIN trace : trace[k].step = i /\ trace[k].ev = "request"})

\* the action of index i as execute_http_request() runs it on its own
StepAlone(c, l, i) == execute_http_request(HttpClient(c), i, l.steps[i], l.srvs[i])

\* every action before the one of index i succeeds
Reached(c, l, i) == \A j \in 1..(i - 1) : StepAlone(c, l, j).ret

\* C13: an enabled client runs a sequence in list order and fails fast: the
\* events of the actions come in the order of the list; an action is
\* attempted only when every action before it has succeeded, and then makes
\* the requests it makes on its own, so a succeeded action is never
\* requested again; the sequence returns True exactly when every action
\* succeeds.  With two actions, the first succeeding at once and the second
\* failing, it returns False after exactly one request of the first.
C13_SequenceFailsFast ==
    (last.op = "execute_action_sequence" /\ cfg.enabled) =>
        /\ \A k \in 1..(Len(last.out.trace) - 1) :
               last.out.trace[k].step <= last.out.trace[k + 1].step
        /\ \A i \in DOMAIN last.steps :
               /\ (\E k \in DOMAIN last.out.trace : last.out.trace[k].step = i) =>
                      Reached(cfg, last, i)
               /\ Reached(cfg, last, i) =>
                      Requests(last.out.trace, i) = Requests(StepAlone(cfg, last, i).trace, i)
        /\ last.out.ret = (\A i \in DOMAIN last.steps : StepAlone(cfg, last, i).ret)
        /\ (/\ Len(last.steps) = 2
            /\ StepAlone(cfg, last, 1).ret
            /\ last.srvs[1].fails = 0
            /\ ~StepAlone(cfg, last, 2).ret) =>
               /\ last.out.ret = FALSE
               /\ Requests(last.out.trace, 1) = 1

\* two actions, the first succeeds at once, the second uses up its attempts
C13_Witness ==
    /\ last.op = "execute_action_sequence"
    /\ cfg.enabled
    /\ cfg.max_retries = MaxHttpRetries
    /\ Len(last.steps) = 2
    /\ Requests(last.out.trace, 1) = 1
    /\ Requests(last.out.trace, 2) = cfg.max_retries + 1
    /\ last.out.ret = FALSE

\* C14 as stated: an action whose every request fails is attempted at most
\* max_retries times in all.
C14_AtMostMaxRetriesAttempts ==
    (/\ last.op = "execute_http_request"
     /\ cfg.enabled
     /\ cfg.max_retries > 0
     /\ last.srvs[1].fails > cfg.max_retries) =>
        Requests(last.out.trace, 1) <= cfg.max_retries

\* C14 amended: an action is attempted at most max_retries + 1 times in
\* all (one attempt and max_retries retries), and an action with a url and
\* the method GET whose every request fails with an error status or a
\* connection error is attempted exactly max_retries + 1 times before
\* execute_http_request() returns False.
C14_AtMostMaxRetriesPlusOne ==
    (last.op = "execute_http_request" /\ cfg.enabled) =>
        /\ Requests(last.out.trace, 1) <= cfg.max_retries + 1
        /\ (/\ last.steps[1].url
            /\ last.steps[1].method = "GET"
            /\ last.srvs[1].fails > cfg.max_retries) =>
               /\ Requests(last.out.trace, 1) = cfg.max_retries + 1
               /\ last.out.ret = FALSE

\* every request of an action has met a connection error
C14_Witness ==
    /\ last.op = "execute_http_request"
    /\ cfg.enabled
    /\ cfg.max_retries = MaxHttpRetries
    /\ last.srvs[1].kind = "conn"
    /\ last.srvs[1].fails > cfg.max_retries
    /\ Requests(last.out.trace, 1) = MaxHttpRetries + 1
    /\ last.out.ret = FALSE

\* C15: between two consecutive requests of an action there is a sleep,
\* whatever made the earlier one fail.
C15_DelayBetweenAttempts ==
    (last.op = "execute_http_request") =>
        \A k \in 1..(Len(last.out.trace) - 1) :
            last.out.trace[k].ev = "request" => last.out.trace[k + 1].ev = "sleep"

\* C16: in a sequence run by an enabled client there is one pause after an
\* action when the action was attempted and succeeded and another follows
\* it, and none otherwise; the pause lasts the action's delay_after, else
\* delay_after_call, comes after the action's requests and before anything
\* of the next action.
C16_PauseBetweenActions ==
    (last.op = "execute_action_sequence" /\ cfg.enabled) =>
        \A i \in DOMAIN last.steps :
            /\ Cardinality({k \in DOMAIN last.out.trace :
                               /\ last.out.trace[k].step = i
                               /\ last.out.trace[k].ev = "pause"}) =
                   (IF /\ Reached(cfg, last, i)
                       /\ StepAlone(cfg, last, i).ret
                       /\ i < Len(last.steps)
                    THEN 1 ELSE 0)
            /\ \A k \in DOMAIN last.out.trace :
                   (last.out.trace[k].step = i /\ last.out.trace[k].ev = "pause") =>
                       /\ last.out.trace[k].d =
                              (IF last.steps[i].delay_after = None
                               THEN cfg.delay_after_call
                               ELSE last.steps[i].delay_after)
                       /\ \A j \in DOMAIN last.out.trace :
                              /\ last.out.trace[j].step = i + 1 => j > k
                              /\ (last.out.trace[j].step = i /\ j # k) => j < k

\* two actions succeed: one pause, of the first action's own delay_after
C16_Witness ==
    /\ last.op = "execute_action_sequence"
    /\ cfg.enabled
    /\ Len(last.steps) = 2
    /\ last.steps[1].delay_after # None
    /\ last.out.ret = TRUE
    /\ \E k \in DOMAIN last.out.trace :
           /\ last.out.trace[k] = HttpEvent(1, "pause", last.steps[1].delay_after)
           /\ k < Len(last.out.trace)
           /\ last.out.trace[k + 1] = HttpEvent(2, "request", 0)

----------------------------------------------------------------------------
(* Bringing the service and the scheduler up *)

\* C17: start_ekos() and ensure_ekos_running() send the service's start
\* command at most once, and only when is_ekos_running() does not see the
\* service running; they sleep only after the command, once before each
\* poll and at most EkosPolls times; they return True as soon as a poll
\* sees the service running (the first poll when the command takes effect
\* at once, the last when it takes effect just in time) and False after
\* EkosPolls polls that have not seen it.
C17_StartOncePollFive ==
    (last.op \in {"start_ekos", "ensure_ekos_running"}) =>
        /\ CountOf(last.out.log, "ekos.start") <= 1
        /\ CountOf(last.out.log, "sleep") <= EkosPolls
        /\ Sent(last.out.log, "ekos.start") =>
               /\ ~is_ekos_running(Machine(last.sess, last.rem), last.e).ret
               /\ Before(last.out.log, "ekos.start", "sleep")
        /\ ~Sent(last.out.log, "ekos.start") => ~Sent(last.out.log, "sleep")
        /\ (Sent(last.out.log, "ekos.start") /\ last.e.ekosCmd # "raises") =>
               /\ last.out.ret =>
                      /\ CountOf(last.out.log, "sleep") >= 1
                      /\ last.out.rem.ekos = 1
                      /\ last.e.ekosCmd = "ok" => CountOf(last.out.log, "sleep") = 1
                      /\ last.e.ekosCmd = "slow" =>
                             CountOf(last.out.log, "sleep") = EkosPolls
               /\ ~last.out.ret => CountOf(last.out.log, "sleep") = EkosPolls

\* the service has come up just in time for the last poll
C17_Witness ==
    /\ last.op = "ensure_ekos_running"
    /\ last.e.ekosCmd = "slow"
    /\ CountOf(last.out.log, "ekos.start") = 1
    /\ CountOf(last.out.log, "sleep") = EkosPolls
    /\ last.out.ret = TRUE

\* C18: ensure_scheduler_running() ensures the service first: the
\* scheduler's start command is sent only when ensure_ekos_running() has
\* returned True, and after the service's start command if there is one;
\* when the service cannot be brought up it returns False; when the status
\* it then reads is Running it returns True without a start command.
C18_ServiceThenScheduler ==
    (last.op = "ensure_scheduler_running") =>
        /\ Before(last.out.log, "ekos.start", "sched.start") \/
               ~Sent(last.out.log, "ekos.start")
        /\ ~ensure_ekos_running(Machine(last.sess, last.rem), last.e).ret =>
               /\ last.out.ret = FALSE
               /\ ~Sent(last.out.log, "sched.start")
        /\ (/\ ensure_ekos_running(Machine(last.sess, last.rem), last.e).ret
            /\ get_scheduler_status(
                   ensure_ekos_running(Machine(last.sess, last.rem), last.e),
                   last.e).ret = Running) =>
               /\ last.out.ret = TRUE
               /\ ~Sent(last.out.log, "sched.start")

\* the service is started, then the scheduler
C18_Witness ==
    /\ last.op = "ensure_scheduler_running"
    /\ last.rem.ekos = 0
    /\ Sent(last.out.log, "ekos.start")
    /\ Sent(last.out.log, "sched.start")
    /\ last.out.rem.sched = Running
    /\ last.out.ret = TRUE

\* C19: within one get_scheduler_status() call initialize_scheduler() is run
\* exactly when the connection stands and the proxy's get_status,
\* call_method and the status property have all failed, and never more than
\* once; the status is re-read at most once, after it, and the call returns
\* what that reading gives; when the re-resolution fails the call returns
\* None. The call makes at most the three steps of one re-resolution.
C19_ReinitializeOnce ==
    (last.op = "get_scheduler_status") =>
        /\ CountOf(last.out.steps, "initialize_scheduler") <= 1
        /\ CountOf(last.out.steps, "reread") <= 1
        /\ Len(last.out.steps) <= 3
        /\ Sent(last.out.steps, "initialize_scheduler") <=>
               /\ EnsureConnected(Machine(last.sess, last.rem), last.e).ret
               /\ StatusStrategies(
                      EnsureConnected(Machine(last.sess, last.rem), last.e),
                      last.e) = None
        /\ Sent(last.out.steps, "reread") =>
               /\ Before(last.out.steps, "initialize_scheduler", "reread")
               /\ last.out.ret = dbus_property_operation(last.out, last.e)
        /\ (/\ Sent(last.out.steps, "initialize_scheduler")
            /\ ~Sent(last.out.steps, "reread")) => last.out.ret = None

\* the strategies fail, the re-resolution succeeds and the re-read status is
\* returned
C19_Witness ==
    /\ last.op = "get_scheduler_status"
    /\ CountOf(last.out.steps, "initialize_scheduler") = 1
    /\ CountOf(last.out.steps, "reread") = 1
    /\ last.out.ret = last.rem.sched

\* C20: with the remote side up, get_scheduler_status() returns the status
\* whenever one of the three strategies (the proxy's get_status, its
\* call_get_status, the status property) works, a strategy that is present
\* but fails being passed over for the next working one.
C20_FirstWorkingStrategy ==
    (/\ last.op = "get_scheduler_status"
     /\ last.rem.up
     /\ \/ last.e.cap.direct = "ok"
        \/ last.e.cap.prefixed = "ok"
        \/ last.e.cap.prop = "ok") =>
        last.out.ret = last.rem.sched

----------------------------------------------------------------------------
(* Capability mismatch and the unknown status *)

\* C21: get_scheduler_status(), call_method(), get_property() and
\* dbus_property_operation() hand their caller a status or None and never an
\* exception, whatever the remote object exposes or raises; when no strategy
\* reads the status the result is None, and a scheduler command whose
\* method the remote object does not have is not sent and changes nothing.
C21_NoneInsteadOfRaising ==
    /\ (last.op = "get_scheduler_status") =>
           /\ last.out.ret \in Statuses \cup {None}
           /\ call_method_get_status(last.out, last.e) \in Statuses \cup {None}
           /\ get_property(last.out, last.e) \in Statuses \cup {None}
           /\ dbus_property_operation(last.out, last.e) \in Statuses \cup {None}
           /\ (/\ last.e.cap.direct # "ok"
               /\ last.e.cap.prefixed # "ok"
               /\ last.e.cap.prop = "fails") => last.out.ret = None
    /\ (/\ last.op \in {"start_scheduler", "abort_scheduler", "stop_scheduler"}
        /\ last.e.schedCmd = "absent") =>
           /\ last.out.ret \in BOOLEAN
           /\ ~Sent(last.out.log, "sched.start")
           /\ ~Sent(last.out.log, "sched.stop")
           /\ last.out.rem = last.rem

\* every strategy is there and raises, on a remote side that answers
C21_Witness ==
    /\ last.op = "get_scheduler_status"
    /\ last.rem.up
    /\ last.out.sess.connected
    /\ last.e.cap.direct = "raises"
    /\ last.e.cap.prefixed = "raises"
    /\ last.e.cap.prop = "fails"
    /\ last.out.ret = None

\* whether start_scheduler() and abort_scheduler() get past their connection
\* guard, and the status they then read
ConnectedAtGuard(l) == EnsureConnected(Machine(l.sess, l.rem), l.e).ret

StatusAtGuard(l) ==
    get_scheduler_status(EnsureConnected(Machine(l.sess, l.rem), l.e), l.e).ret

\* whether ensure_scheduler_running() has the service, and the status it reads
ServiceEnsured(l) == ensure_ekos_running(Machine(l.sess, l.rem), l.e).ret

StatusEnsured(l) ==
    get_scheduler_status(ensure_ekos_running(Machine(l.sess, l.rem), l.e), l.e).ret

\* the evaluation of a safe reading from the session and the remote side of l
SafeEvaluation(l) ==
    check_weather_and_update_ekos(
        TRUE, Weather(TRUE, DefaultMaxRetries, <<Series(0, "safe")>>),
        Machine(l.sess, l.rem), l.e, FALSE)

\* C22: a scheduler status read as None is never taken for Running.
\* start_scheduler() and ensure_scheduler_running() go on to the start
\* command and its polls and do not return True; abort_scheduler(),
\* stop_scheduler() and stop_ekos() send no scheduler stop; the evaluation of a
\* safe reading calls start_scheduler().
C22_UnknownIsNotRunning ==
    /\ (/\ last.op = "start_scheduler"
        /\ ConnectedAtGuard(last)
        /\ StatusAtGuard(last) = None) =>
           /\ last.out.guard = None
           /\ last.e.schedCmd # "absent" => Sent(last.out.log, "sched.start")
           /\ CountOf(last.out.log, "sleep") = SchedulerPolls
           /\ last.out.ret = FALSE
    /\ (/\ last.op = "ensure_scheduler_running"
        /\ ServiceEnsured(last)
        /\ StatusEnsured(last) = None) =>
           /\ last.out.guard = None
           /\ last.e.schedCmd # "absent" => Sent(last.out.log, "sched.start")
           /\ last.out.ret = FALSE
    /\ (/\ last.op \in {"abort_scheduler", "stop_scheduler"}
        /\ ConnectedAtGuard(last)
        /\ StatusAtGuard(last) = None) =>
           /\ ~Sent(last.out.log, "sched.stop")
           /\ last.out.ret = TRUE
    /\ (/\ last.op = "stop_ekos"
        /\ ObservedService(last)
        /\ ObservedStatus(last) = None) =>
           ~Sent(last.out.log, "sched.stop")
    /\ (/\ last.op = "get_scheduler_status"
        /\ ObservedService(last)
        /\ ObservedStatus(last) = None) =>
           /\ SafeEvaluation(last).reading = "safe"
           /\ \E i \in DOMAIN SafeEvaluation(last).calls :
                  SafeEvaluation(last).calls[i] = "start_scheduler"
           /\ last.e.schedCmd # "absent" =>
                  Sent(SafeEvaluation(last).m.log, "sched.start")

\* start_scheduler() reads no status from a connected remote side whose
\* scheduler is Running, and sends its command
C22_Witness ==
    /\ last.op = "start_scheduler"
    /\ last.rem.up
    /\ last.rem.sched = Running
    /\ ConnectedAtGuard(last)
    /\ StatusAtGuard(last) = None
    /\ Sent(last.out.log, "sched.start")
    /\ last.out.ret = FALSE

\* C23: connect() is never executed while the session is Connected: an
\* operation that (re)connects has found the session not connected, and it
\* connects at most once unless a connection attempt has failed.
C23_NoConnectWhileConnected ==
    (last.op \notin {"none", "connect", "disconnect"}) =>
        /\ Sent(last.out.log, "connect") => ~last.sess.connected
        /\ (last.rem.up /\ last.out.rem.up) => CountOf(last.out.log, "connect") <= 1

----------------------------------------------------------------------------
(* The run: serialized ticks and the shutdown *)

\* C24: a firing of the periodic job while an evaluation submitted before
\* it has not completed is skipped: it adds no coroutine to the event loop,
\* so that no two evaluations are pending or in progress together.
C24_DueTickSkipped == [][queued > 0 => queued' <= queued]_vars


\* C25: stop() clears running and the scheduled jobs before it releases the
\* sessions: the coroutines its disconnection lets the event loop run find
\* running False and leave the remote side as it is; when stop() has
\* returned no job is scheduled and none is pending, the weather monitor is
\* disconnected, the controller's session is cleared, and nothing is
\* scheduled again.
C25_ShutdownOrder ==
    /\ [](phase = "stopped" =>
              /\ ~running
              /\ jobs = 0
              /\ queued = 0
              /\ ~wconn
              /\ sess = NoSession)
    /\ [][(phase = "loop" /\ phase' = "stopped") => rem' = rem]_vars
    /\ [][phase = "stopped" => UNCHANGED <<running, jobs, queued, stats, wconn, sess>>]_vars

\* stop() with two firings of the periodic job still pending, on a remote
\* side whose service does not run
C25_Witness ==
    /\ phase = "stopped"
    /\ stats.dropped = 2
    /\ rem.up
    /\ rem.ekos = 0
    /\ sess = NoSession
    /\ ~wconn


\* the next evaluation, should the safety source answer "safe" and the
\* remote side behave: from the state the last evaluation has left
NextHealthy ==
    check_weather_and_update_ekos(
        running,
        Weather(wconn, cfg.max_retries, <<Series(0, "safe"), Series(0, "safe")>>),
        Machine(sess, rem),
        SchedulerBehaviour(CHOOSE c \in CapClasses : c.prop = "ok", "ok"),
        cfg.stop_ekos_on_unsafe)

\* C26: whatever the safety source, the control plane and the HTTP actions
\* do during an evaluation, the evaluation ends with a reading and a
\* boolean, the system is still running with its periodic job scheduled,
\* and the next evaluation is processed: on a remote side that answers, a
\* safe reading then brings the scheduler to Running.
C26_TickSurvivesFailures ==
    (last.op = "evaluation") =>
        /\ running
        /\ jobs = 1
        /\ phase = "loop"
        /\ last.reading \in (Responses \ {"error"}) \cup {"failed", "none"}
        /\ last.isSafe \in BOOLEAN
        /\ rem.up =>
               /\ NextHealthy.reading = "safe"
               /\ NextHealthy.m.rem.sched = Running

\* the safety source answers no request and the control plane is away
C26_Witness ==
    /\ last.op = "evaluation"
    /\ last.reading = "failed"
    /\ last.requests = DefaultMaxRetries
    /\ ~last.rem.up
    /\ ~rem.up
    /\ running

----------------------------------------------------------------------------
(* EkosController.load_playlist(), one call at a time *)

\* the behaviours of the remote side during a load: the status readable by
\* property or not, the service obeying its start command or not
LoadBehaviours ==
    {e \in ServiceBehaviours :
        /\ e.ekosCap = "status"
        /\ e.schedCmd = "ok"
        /\ e.ekosCmd \in {"ok", "ignored"}
        /\ e.http = "off"}

\* the paths and the loaders a call is made with: the loaders matter when
\* the file is there, the generic attribute when no method of load_methods
\* works, the read-back when one does
LoadInputs ==
    {x \in [pl : Playlists, ld : Loaders] :
        /\ ~x.pl.path => ~x.pl.exists /\ ~x.pl.esl
        /\ (~x.pl.path \/ ~x.pl.exists) =>
               /\ x.ld.generic = "absent"
               /\ x.ld.readback = "jobs"
               /\ \A i \in DOMAIN LoadMethods : x.ld.methods[i] = "absent"
        /\ (\E i \in DOMAIN LoadMethods : x.ld.methods[i] = "ok") =>
               x.ld.generic = "absent"
        /\ (\A i \in DOMAIN LoadMethods : x.ld.methods[i] # "ok") =>
               x.ld.readback = "jobs"}

InitLoad ==
    /\ sess = NoSession
    /\ rem \in Remotes
    /\ wconn = FALSE
    /\ cfg = DefaultConfig
    /\ last = NoOp
    /\ prev = NoPrev
    /\ InitRest

LoadDone(e, x, out) ==
    /\ sess' = out.sess
    /\ rem' = out.rem
    /\ last' = [op |-> "load_playlist", sess |-> sess, rem |-> rem, e |-> e,
                pl |-> x.pl, ld |-> x.ld, out |-> out]
    /\ UNCHANGED ekosOnly

LoadPlaylist ==
    /\ last = NoOp
    /\ \E e \in LoadBehaviours, x \in LoadInputs :
        LoadDone(e, x, load_playlist(Machine(sess, rem), e, x.pl, x.ld))

NextLoad ==
    \/ LoadPlaylist
    \/ RemoteChange
    \/ Return

SpecLoad == InitLoad /\ [][NextLoad]_vars

\* the first method of load_methods that is there and does not raise, 0
\* when there is none
FirstLoader(ld) ==
    IF \E i \in DOMAIN LoadMethods : ld.methods[i] = "ok"
    THEN CHOOSE i \in DOMAIN LoadMethods :
             /\ ld.methods[i] = "ok"
             /\ \A j \in 1..(i - 1) : ld.methods[j] # "ok"
    ELSE 0

\* C28: once load_playlist() has reached its submission loop and a method
\* of load_methods completes without raising, the playlist is submitted
\* once, by the first such method in the order of load_methods, every
\* method before it that is there having raised and been passed over, and
\* the result is True whatever the read-back gives.
C28_ReadBackIsSoft ==
    (/\ last.op = "load_playlist"
     /\ Sent(last.out.steps, "load")
     /\ FirstLoader(last.ld) > 0) =>
        /\ last.out.ret = TRUE
        /\ CountOf(last.out.log, "sched.load") = 1
        /\ CountOf(last.out.log, "sched.jobs") = 1
        /\ Before(last.out.log, "sched.load", "sched.jobs")
        /\ CountOf(last.out.log, "sched.load.raised") =
               Cardinality({j \in 1..(FirstLoader(last.ld) - 1) :
                               last.ld.methods[j] = "raises"})
        /\ \A i \in DOMAIN last.out.log :
               last.out.log[i] = "sched.load.raised" =>
                   \E k \in (i + 1)..Len(last.out.log) : last.out.log[k] = "sched.load"

\* the first method raises, the second submits, the read-back raises
C28_Witness ==
    /\ last.op = "load_playlist"
    /\ last.ld.methods[1] = "raises"
    /\ last.ld.methods[2] = "ok"
    /\ last.ld.readback = "raises"
    /\ Sent(last.out.log, "sched.load.raised")
    /\ Sent(last.out.log, "sched.load")
    /\ last.out.ret = TRUE

\* C29: load_playlist() returns True only if the playlist has been
\* submitted to the scheduler.
C29_TrueOnlyIfSubmitted ==
    (last.op = "load_playlist" /\ last.out.ret = TRUE) =>
        Sent(last.out.log, "sched.load")


----------------------------------------------------------------------------
(* The playlist at start() *)

\* C27: a load_playlist() on a path whose file is missing returns False and
\* does nothing: it makes no connection, no remote call and no step of
\* re-resolution; start() then goes on and returns True with the system
\* running. A file that is there is loaded with or without the .esl
\* extension: the extension does not change what load_playlist() returns.
C27_MissingFileEndsLoadOnly ==
    (last.op = "start" /\ last.load.called) =>
        /\ last.ok
        /\ phase \in {"loop", "stopped"}
        /\ ~last.pc.pl.exists =>
               /\ last.load.ret = FALSE
               /\ last.load.log = <<>>
               /\ last.load.steps = <<>>
        /\ last.pc.pl.exists =>
               last.load.ret =
                   load_playlist(Machine(last.load.sess, last.load.rem), last.e,
                                 [last.pc.pl EXCEPT !.esl = ~@], last.pc.ld).ret

\* start() with a playlist configured whose file is missing, on a remote
\* side that would have taken it
C27_Witness ==
    /\ last.op = "start"
    /\ last.load.called
    /\ ~last.pc.pl.exists
    /\ last.load.rem.up
    /\ last.load.rem.ekos = 1
    /\ last.load.ret = FALSE
    /\ last.ok
    /\ running
    /\ phase = "loop"


----------------------------------------------------------------------------
(* The after-stop actions *)

\* C30: a stop_ekos() that has sent the stop command and seen the service
\* not running returns True whether its after-stop HTTP actions succeed or
\* fail; the actions are run once, after the stop command, when they are
\* configured, and nothing is called after them: what a failed sequence has
\* done is not undone.
C30_AfterStopFailureNotFatal ==
    (last.op = "stop_ekos" /\ Sent(last.out.log, "ekos.stop")) =>
        /\ ~is_ekos_running(Machine(last.out.sess, last.out.rem), last.e).ret =>
               /\ last.out.ret = TRUE
               /\ last.e.http # "off" <=> Sent(last.out.log, "http.after")
        /\ Sent(last.out.log, "http.after") =>
               /\ last.out.ret = TRUE
               /\ CountOf(last.out.log, "http.after") = 1
               /\ Before(last.out.log, "ekos.stop", "http.after")
               /\ last.out.log[Len(last.out.log)] = "http.after"
               /\ CountOf(last.out.log, "ekos.stop") = 1
               /\ ~Sent(last.out.log, "ekos.start")
               /\ ~Sent(last.out.log, "http.before")

\* the service stops and the after-stop actions fail
C30_Witness ==
    /\ last.op = "stop_ekos"
    /\ last.rem.ekos = 1
    /\ last.out.rem.ekos = 0
    /\ last.e.http = "fail"
    /\ Sent(last.out.log, "http.after")
    /\ last.out.ret = TRUE

----------------------------------------------------------------------------
(* utils.py: save_config() and load_config(), one call at a time *)

\* longest list or tuple, and most entries of a nested dictionary, in a
\* configuration
MaxItems == 1

\* the sequences of at most n elements of S
UpTo(S, n) == UNION {[1..k -> S] : k \in 0..n}

\* the scalars of a configuration: a str the resolver leaves alone, a str
\* it would read as a bool, and a bool, an int and None themselves
ScalarValues == {PyStr("INFO"), PyStr("on"), PyBool("true"), PyInt("1"), PyNone}

\* the dictionaries with at most n entries, keys in keys (no key twice)
DictsOver(keys, vals, n) ==
    {Py("dict", "", items) :
        items \in {x \in UpTo({PyItem(k, v) : k \in keys, v \in vals}, n) :
                      \A i, j \in DOMAIN x : i # j => x[i].s # x[j].s}}

ConfigValues ==
    ScalarValues
    \cup {Py("list", "", items) : items \in UpTo(ScalarValues, MaxItems)}
    \cup {Py("tuple", "", items) : items \in UpTo(ScalarValues, MaxItems)}
    \cup DictsOver({"debug"}, ScalarValues, MaxItems)

\* the configuration dictionaries: empty, or one section, under a key the
\* resolver would read as a bool
ConfigDicts ==
    {Py("dict", "", <<>>)}
    \cup {Py("dict", "", <<PyItem("on", v)>>) : v \in ConfigValues}

\* a value made of str, bool, int, None, list and dict only
RECURSIVE YamlNative(_)
YamlNative(v) ==
    /\ v.t # "tuple"
    /\ \A i \in DOMAIN v.items : YamlNative(v.items[i])

\* the files found at the start: none, an empty one, one that is not YAML
InitConfig ==
    /\ sess = NoSession
    /\ rem = DefaultRemote
    /\ wconn = FALSE
    /\ cfg = DefaultConfig
    /\ last = NoOp
    /\ prev = NoPrev
    /\ running = FALSE
    /\ jobs = 0
    /\ queued = 0
    /\ stats = [submitted |-> 0, dropped |-> 0]
    /\ phase = "init"
    /\ files \in [Paths -> {Missing, IllFormed, Stored(TRUE, TRUE, EmptyDocument)}]

configOnly == <<sess, rem, wconn, cfg, prev, running, jobs, queued, stats, phase>>

SaveConfig ==
    /\ last = NoOp
    /\ \E c \in ConfigDicts, p \in Paths :
        /\ files' = save_config(files, c, p)
        /\ last' = [op |-> "save_config", config |-> c, path |-> p]
    /\ UNCHANGED configOnly

LoadConfig ==
    /\ last = NoOp
    /\ \E p \in Paths :
        last' = [op |-> "load_config", path |-> p, out |-> load_config(files, p)]
    /\ UNCHANGED <<files, configOnly>>

\* os.unlink(path), by the owner of the file
Unlink ==
    /\ last = NoOp
    /\ \E p \in Paths :
        /\ files[p].exists
        /\ files' = [files EXCEPT ![p] = Missing]
    /\ UNCHANGED <<last, configOnly>>

NextConfig ==
    \/ SaveConfig
    \/ LoadConfig
    \/ Unlink
    \/ Return

SpecConfig == InitConfig /\ [][NextConfig]_vars

C32_UnusableFileRaises ==
    last.op = "load_config" =>
        /\ ~files[last.path].exists => last.out = Raises("FileNotFoundError")
        /\ files[last.path].exists /\ ~files[last.path].well_formed =>
               last.out = Raises("YAMLError")
        /\ last.out.raised = "none" =>
               files[last.path].exists /\ files[last.path].well_formed

\* a configuration was saved and its file removed: load_config() raises
\* FileNotFoundError for it, and the other path holds a text that is not YAML
C32_Witness ==
    /\ last.op = "load_config"
    /\ files[last.path] = Missing
    /\ last.out = Raises("FileNotFoundError")
    /\ \E p \in Paths : files[p] = IllFormed

----------------------------------------------------------------------------
(* The evaluations of a started system: what lets a tick start anything *)

\* the evaluation has sent a start command or called a starting method
Starts(l) ==
    \/ \E i \in DOMAIN l.log : l.log[i] \in StartCommands
    \/ Called(l, "start_ekos")
    \/ Called(l, "start_scheduler")

\* C33: an evaluation issues a service start or a scheduler start only if
\* the safety source has answered, in that evaluation, with ErrorNumber 0
\* and the Value true, and is_safe() is True in no other case: not when no
\* request got through, not on a non-zero ErrorNumber, not on a missing
\* Value.
C33_StartOnlyOnSafeValue ==
    (last.op = "evaluation") =>
        /\ last.isSafe => last.reading = "safe"
        /\ Starts(last) => last.isSafe /\ last.reading = "safe"

----------------------------------------------------------------------------
(* WeatherMonitoringSystem.start() and stop(), called in any order *)

\* setup(): the components are made and the periodic job is registered
setup(n) == n + 1

\* what a call of start() or stop() returns and leaves: running, the jobs
\* registered, the weather monitor and the controller
Lifecycle(ok, isRunning, n, w, m) ==
    [ok |-> ok, running |-> isRunning, jobs |-> n, w |-> w, m |-> m]

\* start() after setup(): running is set when both connections are made
start_set_up(n, res) == Lifecycle(res.ok, res.ok, n, res.w, res.m)

\* start(), the whole of it: nothing is done on a running system, setup()
\* is called only while a component is missing
start_whole(isRunning, isSetUp, n, w, m, e, stop_ekos_on_unsafe, pc) ==
    IF isRunning THEN Lifecycle(TRUE, TRUE, n, w, m)
    ELSE start_set_up(IF isSetUp THEN n ELSE setup(n),
                      start(w, m, e, stop_ekos_on_unsafe, pc))

\* stop() after its guard: scheduler.clear() leaves no job
stop_running(ev) ==
    Lifecycle(TRUE, FALSE, 0, weather_disconnect(ev.w), disconnect(ev.m))

\* stop() that disconnects the sessions of a stopped system again
stop_whole_unguarded(isRunning, n, q, w, m, e, stop_ekos_on_unsafe) ==
    stop_running(stop(q, w, m, e, stop_ekos_on_unsafe))

\* stop(), the whole of it: nothing is done on a system that is not running
stop_whole(isRunning, n, q, w, m, e, stop_ekos_on_unsafe) ==
    IF ~isRunning THEN Lifecycle(TRUE, FALSE, n, w, m)
    ELSE stop_running(stop(q, w, m, e, stop_ekos_on_unsafe))

\* the remote side during a call: a control plane that obeys, whose status
\* is readable by property
CallBehaviours ==
    {e \in TickBehaviours :
        /\ e.cap.direct = "ok" /\ e.cap.prefixed = "absent" /\ e.cap.prop = "ok"
        /\ e.ekosCap = "status"
        /\ e.schedCmd = "ok"
        /\ e.ekosCmd = "ok"
        /\ e.http = "off"}

\* no playlist is configured
NoPlaylist ==
    CHOOSE pc \in PlaylistConfigs : ~pc.configured

InitCalls ==
    /\ sess = NoSession
    /\ rem \in Remotes
    /\ wconn = FALSE
    /\ cfg \in {c \in Configs : c.max_retries = DefaultMaxRetries}
    /\ last = NoOp
    /\ prev = NoPrev
    /\ InitRest

\* the call returns: what it found, what it did and what it leaves
Called_(name, src, res) ==
    /\ running' = res.running
    /\ jobs' = res.jobs
    /\ wconn' = res.w.connected
    /\ sess' = res.m.sess
    /\ rem' = res.m.rem
    /\ last' = [op |-> name, ok |-> res.ok,
                running |-> running, jobs |-> jobs, wconn |-> wconn, sess |-> sess,
                rem |-> rem, queued |-> queued,
                src |-> src, requests |-> res.w.requests,
                answered |-> Len(src) - Len(res.w.src),
                log |-> res.m.log]

CallStart ==
    /\ last = NoOp
    /\ \E e \in CallBehaviours, s1 \in ConnectSeries, s2 \in TickSeries :
        Called_("start", <<s1, s2>>,
                start_whole(running, phase # "init", jobs,
                            Weather(wconn, cfg.max_retries, <<s1, s2>>),
                            Machine(sess, rem), e, cfg.stop_ekos_on_unsafe, NoPlaylist))
    /\ phase' = IF running' THEN "loop" ELSE "failed"
    /\ UNCHANGED <<cfg, prev, queued, stats, files>>

CallStop ==
    /\ last = NoOp
    /\ \E e \in CallBehaviours :
        Called_("stop", [i \in 1..queued |-> Series(0, "safe")],
                stop_whole(running, jobs, queued,
                           Weather(wconn, cfg.max_retries,
                                   [i \in 1..queued |-> Series(0, "safe")]),
                           Machine(sess, rem), e, cfg.stop_ekos_on_unsafe))
    /\ phase' = IF running THEN "stopped" ELSE phase
    /\ queued' = IF running THEN 0 ELSE queued
    /\ stats' = IF running THEN [stats EXCEPT !.dropped = @ + queued] ELSE stats
    /\ UNCHANGED <<cfg, prev, files>>

\* the periodic job is due, between two calls
CallPoll ==
    /\ last = NoOp
    /\ Poll

NextCalls ==
    \/ CallStart
    \/ CallStop
    \/ CallPoll
    \/ RemoteChange
    \/ Return

SpecCalls == InitCalls /\ [][NextCalls]_vars

\* C34: whenever start() has returned True and the system is running,
\* exactly one periodic job is registered, after any sequence of start()
\* and stop() calls.
C34_OneJobWhileRunning ==
    running => jobs = 1

\* C35: once stop() has set running to False no evaluation acts: the
\* coroutines handed to the event loop before stop(), which the loop runs
\* while stop() disconnects, return at once without a request to the safety
\* source or a command to the control plane, and while running is False the
\* wrapper hands no new coroutine to the loop.
C35_NoEvaluationAfterStop ==
    /\ [](last.op = "stop" /\ last.running =>
            /\ ~running
            /\ queued = 0
            /\ last.requests = 0
            /\ last.answered = 0
            /\ last.log = <<>>
            /\ rem = last.rem)
    /\ [][~running => queued' = queued]_vars

\* stop() has run with MaxPolls coroutines waiting on the event loop
C35_Witness ==
    /\ last.op = "stop"
    /\ last.running
    /\ last.queued = MaxPolls
    /\ stats.dropped = MaxPolls
    /\ ~running

\* the weather monitor's connect() fails on these answers: no request gets
\* through, or the answer carries a non-zero ErrorNumber
ConnectFails(s, mx) == s.fails >= mx \/ ~Succeeded(s.resp)

\* C36: a start() that fails to connect to the safety source or to the
\* control plane returns False with running False, without an evaluation,
\* and leaves neither session connected (the weather monitor is
\* disconnected again when the controller's connect() fails); a start() on
\* a running system returns True and does nothing; a stop() on a system
\* that is not running returns True and changes nothing.
C36_NothingHalfStarted ==
    /\ (last.op = "start" /\ ~last.running) =>
           /\ ConnectFails(last.src[1], cfg.max_retries) => ~last.ok /\ last.log = <<>>
           /\ ~last.rem.up => ~last.ok
           /\ ~last.ok =>
                  /\ ~running
                  /\ ~wconn
                  /\ ~sess.connected
                  /\ last.answered = 1
                  /\ \A i \in DOMAIN last.log : last.log[i] = "connect"
                  /\ rem = last.rem
    /\ (last.op = "start" /\ last.running) =>
           /\ last.ok
           /\ running
           /\ last.requests = 0 /\ last.answered = 0 /\ last.log = <<>>
           /\ sess = last.sess /\ wconn = last.wconn /\ rem = last.rem
           /\ jobs = last.jobs /\ queued = last.queued
    /\ (last.op = "stop" /\ ~last.running) =>
           /\ last.ok
           /\ ~running
           /\ last.requests = 0 /\ last.log = <<>>
           /\ sess = last.sess /\ wconn = last.wconn /\ rem = last.rem
           /\ jobs = last.jobs /\ queued = last.queued

\* the weather monitor connected, the controller could not: start() has
\* returned False, the weather monitor is disconnected again and the job
\* setup() registered is still there
C36_Witness ==
    /\ last.op = "start"
    /\ ~last.ok
    /\ last.log = <<"connect">>
    /\ last.requests > 0
    /\ ~wconn
    /\ ~running
    /\ jobs = 1

----------------------------------------------------------------------------
(* EkosController: the session *)

\* C37: whenever connected is True the bus, the ekos and scheduler
\* interfaces and both Properties interfaces are set; disconnect() leaves
\* all of them None and connected False; a connect() that fails leaves
\* connected False.
C37_SessionInvariant ==
    /\ sess.connected =>
           /\ sess.bus /\ sess.ekos /\ sess.scheduler
           /\ sess.props /\ sess.ekos_props
    /\ last.op = "disconnect" => sess = NoSession
    /\ (last.op = "connect" /\ ~last.out.ret) => ~sess.connected

\* connect() has failed on a session that was connected: the interfaces of
\* the old session are still set, connected is False
C37_Witness ==
    /\ last.op = "connect"
    /\ last.sess.connected
    /\ ~last.out.ret
    /\ sess.ekos /\ sess.scheduler /\ sess.props /\ sess.ekos_props
    /\ ~sess.connected

----------------------------------------------------------------------------
(* The evaluations of a started system: how much one evaluation does *)

\* C38: every evaluation ends after a bounded number of remote calls,
\* whatever the remote side does: at most max_retries requests to the
\* safety source, at most SchedulerPolls polls after each scheduler command
\* and EkosPolls polls after a service command (two scheduler commands and
\* one service command at most), each command sent at most once (the
\* scheduler's stop at most twice), and the re-resolutions of
\* get_scheduler_status(), initialize_scheduler(), is_connected() and
\* connect() do not go on: 19 connects, 10 steps of re-resolution and 30
\* commands, connects and polls in all are the most an evaluation makes.
C38_TickIsBounded ==
    (last.op = "evaluation") =>
        /\ last.requests <= cfg.max_retries
        /\ CountOf(last.log, "sleep") <= SchedulerPolls + SchedulerPolls + EkosPolls
        /\ CountOf(last.log, "sched.start") <= 1
        /\ CountOf(last.log, "sched.stop") <= 2
        /\ CountOf(last.log, "ekos.start") <= 1
        /\ CountOf(last.log, "ekos.stop") <= 1
        /\ CountOf(last.log, "http.before") <= 1
        /\ CountOf(last.log, "http.after") <= 1
        /\ CountOf(last.log, "connect") <= 19
        /\ Len(last.steps) <= 10
        /\ Len(last.log) <= 30

\* an unsafe evaluation whose three verification loops have all run out
C38_Witness ==
    /\ last.op = "evaluation"
    /\ ~last.isSafe
    /\ CountOf(last.log, "sched.stop") = 2
    /\ CountOf(last.log, "ekos.stop") = 1
    /\ CountOf(last.log, "sleep") = SchedulerPolls + SchedulerPolls + EkosPolls

----------------------------------------------------------------------------
(* The HTTP actions around the service's start and stop *)

\* C39: the before-start actions gate the service's start: an evaluation
\* sends the service's start command only when the before-start sequence
\* has returned success before it in the same start_ekos() call; when the
\* sequence fails, start_ekos() returns False, the evaluation ends there,
\* and neither the service's nor the scheduler's start command is sent.
C39_BeforeStartGates ==
    (last.op = "evaluation") =>
        /\ Sent(last.log, "ekos.start") =>
               /\ last.e.http # "fail"
               /\ last.e.http = "ok" =>
                      /\ CountOf(last.log, "http.before") = 1
                      /\ Before(last.log, "http.before", "ekos.start")
        /\ (last.e.http = "fail" /\ Sent(last.log, "http.before")) =>
               /\ last.calls = <<"is_ekos_running", "start_ekos">>
               /\ ~Sent(last.log, "ekos.start")
               /\ ~Sent(last.log, "sched.start")
               /\ last.log[Len(last.log)] = "http.before"
               /\ rem = last.rem

\* a safe reading, the service not running, the before-start actions fail
C39_Witness ==
    /\ last.op = "evaluation"
    /\ last.isSafe
    /\ last.rem.up
    /\ last.rem.ekos = 0
    /\ last.e.http = "fail"
    /\ Sent(last.log, "http.before")
    /\ last.calls = <<"is_ekos_running", "start_ekos">>

\* C40: stop_ekos() runs the after-stop actions only after it has sent the
\* stop command and then seen the service not running, and once: never
\* when the service was not running at its start, when the service has no
\* stop method, or when the polls have run out with the service still
\* running; each run of the actions comes with a stop of the service made
\* in the same call, so that they run at most once per stop.
C40_AfterStopOnlyAfterStop ==
    (last.op = "stop_ekos") =>
        /\ CountOf(last.out.log, "http.after") <= 1
        /\ Sent(last.out.log, "http.after") =>
               /\ is_ekos_running(Machine(last.sess, last.rem), last.e).ret
               /\ last.e.ekosCmd \in {"ok", "slow"}
               /\ Before(last.out.log, "ekos.stop", "http.after")
               /\ ~is_ekos_running(Machine(last.out.sess, last.out.rem), last.e).ret
               /\ last.rem.ekos = 1
               /\ last.out.rem.ekos = 0
        /\ ~is_ekos_running(Machine(last.sess, last.rem), last.e).ret =>
               /\ ~Sent(last.out.log, "ekos.stop")
               /\ ~Sent(last.out.log, "http.after")
               /\ last.out.ret = TRUE
        /\ last.e.ekosCmd = "absent" => ~Sent(last.out.log, "http.after")
        /\ (/\ Sent(last.out.log, "ekos.stop")
            /\ is_ekos_running(Machine(last.out.sess, last.out.rem), last.e).ret) =>
               /\ ~Sent(last.out.log, "http.after")
               /\ last.out.ret = FALSE

\* a slow service: it has stopped when the last poll is made, and the
\* after-stop actions are run
C40_Witness ==
    /\ last.op = "stop_ekos"
    /\ last.e.ekosCmd = "slow"
    /\ last.e.http = "ok"
    /\ CountOf(last.out.log, "sleep") >= EkosPolls
    /\ Sent(last.out.log, "http.after")
    /\ last.out.rem.ekos = 0
====
